---------------------------- MODULE Spec2Model ----------------------------
(***************************************************************************)
(* A state-machine model of the haystack search engine core:               *)
(*   src/core/tokenizer.cpp, query_parser.cpp, snippet.cpp,                *)
(*   src/core/inverted_index.cpp and src/core/search_service.cpp.          *)
(*                                                                         *)
(* Conventions.                                                            *)
(*  - A std::string is a sequence of byte values (ASCII codes).            *)
(*  - InvertedIndex::index_ (unordered_map of unordered_maps) is a         *)
(*    sequence of entries [term, post], post a sequence of <<docId, tf>>.  *)
(*    The position in the sequence stands for the unspecified iteration    *)
(*    order of the hash map (here: order of first insertion), so that a    *)
(*    missing sort in the code shows up as a different iteration order.    *)
(*  - doc_text_ and doc_len_ are functions whose DOMAIN is the key set.    *)
(*  - avgdl_ (a double) is the exact fraction <<num, den>> in lowest       *)
(*    terms; (double)total/(double)N is the correctly rounded value of     *)
(*    that fraction, so equal fractions are equal doubles.                 *)
(*  - BM25 scores are fixed-point numbers (unit 1e-5): std::log is taken   *)
(*    from the table LnE5 and every per-term contribution is rounded       *)
(*    down.  Equal inputs give equal scores, as in the C++ code.           *)
(***************************************************************************)
EXTENDS Integers, Sequences, FiniteSets, TLC

(***************************************************************************)
(* Small helpers over sequences and sets.                                  *)
(***************************************************************************)
Min(a, b) == IF a < b THEN a ELSE b

Max(a, b) == IF a < b THEN b ELSE a

RECURSIVE Gcd(_, _)
Gcd(a, b) == IF b = 0 THEN a ELSE Gcd(b, a % b)

RECURSIVE Concat(_)
Concat(ss) == IF ss = <<>> THEN <<>> ELSE Head(ss) \o Concat(Tail(ss))

Prefix(s, n) == SubSeq(s, 1, Min(n, Len(s)))

RECURSIVE SetToSortedSeq(_)
SetToSortedSeq(S) ==
    IF S = {} THEN <<>>
    ELSE LET m == CHOOSE x \in S : \A y \in S : x <= y
         IN  <<m>> \o SetToSortedSeq(S \ {m})

Range(s) == { s[i] : i \in 1..Len(s) }

(* byte-lexicographic order of two strings, as std::string operator<      *)
RECURSIVE StrLess(_, _)
StrLess(a, b) ==
    IF b = <<>> THEN FALSE
    ELSE IF a = <<>> THEN TRUE
    ELSE IF Head(a) # Head(b) THEN Head(a) < Head(b)
    ELSE StrLess(Tail(a), Tail(b))

(***************************************************************************)
(* tokenizer.cpp                                                           *)
(***************************************************************************)
isalnum(ch) == ch \in (48..57) \cup (65..90) \cup (97..122)

tolower(ch) == IF ch \in 65..90 THEN ch + 32 ELSE ch

flush(cur, out) == IF cur # <<>> THEN Append(out, cur) ELSE out

(* the loop of lines 16-23, taken a run of bytes of one kind at a time: a  *)
(* run of alphanumeric bytes is appended to cur in lower case, a run of    *)
(* other bytes flushes cur                                                 *)
RECURSIVE tokenize_from(_, _, _, _)
tokenize_from(text, i, cur, out) ==
    IF i > Len(text) THEN flush(cur, out)
    ELSE LET kind == isalnum(text[i])
             e    == CHOOSE j \in i..Len(text) :
                         /\ \A x \in i..j : isalnum(text[x]) = kind
                         /\ j = Len(text) \/ isalnum(text[j + 1]) # kind
         IN  IF kind
             THEN tokenize_from(text, e + 1,
                                cur \o [x \in 1..(e - i + 1) |-> tolower(text[i + x - 1])], out)
             ELSE tokenize_from(text, e + 1, <<>>, flush(cur, out))

tokenize(text) == tokenize_from(text, 1, <<>>, <<>>)

(***************************************************************************)
(* inverted_index.cpp: the in-memory index                                 *)
(***************************************************************************)
EmptyIndex == <<>>

TermPos(index, term) ==
    IF \E i \in 1..Len(index) : index[i].term = term
    THEN CHOOSE i \in 1..Len(index) : index[i].term = term
    ELSE 0

DocPos(post, docId) ==
    IF \E j \in 1..Len(post) : post[j][1] = docId
    THEN CHOOSE j \in 1..Len(post) : post[j][1] = docId
    ELSE 0

(* a cell that is set to 1 instead of being incremented                     *)
IndexSetOne(index, token, docId) ==
    LET i    == TermPos(index, token)
        base == IF i = 0 THEN Append(index, [term |-> token, post |-> <<>>]) ELSE index
        k    == IF i = 0 THEN Len(base) ELSE i
        j    == DocPos(base[k].post, docId)
        post == IF j = 0 THEN Append(base[k].post, <<docId, 1>>)
                ELSE [base[k].post EXCEPT ![j] = <<docId, 1>>]
    IN  [base EXCEPT ![k].post = post]

(* index_[token][docId]++ : operator[] creates a missing cell with tf 0    *)
IndexIncrement(index, token, docId) ==
    LET i    == TermPos(index, token)
        base == IF i = 0 THEN Append(index, [term |-> token, post |-> <<>>]) ELSE index
        k    == IF i = 0 THEN Len(base) ELSE i
        j    == DocPos(base[k].post, docId)
        post == IF j = 0 THEN Append(base[k].post, <<docId, 1>>)
                ELSE [base[k].post EXCEPT ![j] = <<docId, base[k].post[j][2] + 1>>]
    IN  [base EXCEPT ![k].post = post]

RECURSIVE IndexAddTokens(_, _, _)
IndexAddTokens(index, tokens, docId) ==
    IF tokens = <<>> THEN index
    ELSE IndexAddTokens(IndexIncrement(index, Head(tokens), docId), Tail(tokens), docId)

InvertedIndex_add_document(index, docId, text) ==
    IndexAddTokens(index, tokenize(text), docId)

PairLess(a, b) == a[1] < b[1] \/ (a[1] = b[1] /\ a[2] < b[2])

IntLess(a, b) == a < b

(* InvertedIndex::postings: (docId, tf) pairs sorted with std::sort        *)
InvertedIndex_postings(index, term) ==
    LET i == TermPos(index, term)
    IN  IF i = 0 THEN <<>> ELSE SortSeq(index[i].post, PairLess)

(* InvertedIndex::search: the docIds of the term, sorted                   *)
InvertedIndex_search(index, term) ==
    LET i == TermPos(index, term)
    IN  IF i = 0 THEN <<>>
        ELSE SortSeq([j \in 1..Len(index[i].post) |-> index[i].post[j][1]], IntLess)

InvertedIndex_df(index, term) ==
    LET i == TermPos(index, term)
    IN  IF i = 0 THEN 0 ELSE Len(index[i].post)

(* the logical content of an index: its terms and (term, docId, tf) cells *)
IndexTerms(index) == { index[i].term : i \in 1..Len(index) }

IndexContent(index) ==
    UNION { { <<index[i].term, index[i].post[j][1], index[i].post[j][2]>> :
                j \in 1..Len(index[i].post) } : i \in 1..Len(index) }

(***************************************************************************)
(* query_parser.cpp                                                        *)
(***************************************************************************)
(* the split on ' ' of parse_query: no empty part is produced              *)
RECURSIVE split_parts(_, _, _, _)
split_parts(q, i, cur, parts) ==
    IF i > Len(q) THEN flush(cur, parts)
    ELSE IF q[i] = 32
         THEN split_parts(q, i + 1, <<>>, flush(cur, parts))
         ELSE split_parts(q, i + 1, Append(cur, q[i]), parts)

(* OR in any casing                                                        *)
is_or_any_case(p) == [i \in 1..Len(p) |-> tolower(p[i])] = <<111, 114>>

is_or_lexeme(p) == p = <<79, 82>> \/ p = <<111, 114>>

RECURSIVE norm(_)
norm(in) == IF in = <<>> THEN <<>> ELSE tokenize(Head(in)) \o norm(Tail(in))

RECURSIVE classify(_, _)
classify(parts, pq) ==
    IF parts = <<>> THEN pq
    ELSE LET p == Head(parts)
         IN  IF is_or_lexeme(p)
             THEN classify(Tail(parts), [pq EXCEPT !.is_or = TRUE])
             ELSE IF p # <<>> /\ p[1] = 45
             THEN classify(Tail(parts), [pq EXCEPT !.not_terms = Append(@, Tail(p))])
             ELSE classify(Tail(parts), [pq EXCEPT !.terms = Append(@, p)])

parse_query(q) ==
    LET raw == classify(split_parts(q, 1, <<>>, <<>>),
                        [terms |-> <<>>, not_terms |-> <<>>, is_or |-> FALSE])
    IN  [terms |-> norm(raw.terms), not_terms |-> norm(raw.not_terms), is_or |-> raw.is_or]

(***************************************************************************)
(* snippet.cpp                                                             *)
(***************************************************************************)
window_chars == 120

lower(s) == [i \in 1..Len(s) |-> tolower(s[i])]

(* std::string::find: the 0-based offset of the first occurrence, -1 = npos *)
StrFind(hay, needle) ==
    LET hits == { p \in 0..(Len(hay) - Len(needle)) :
                    SubSeq(hay, p + 1, p + Len(needle)) = needle }
    IN  IF hits = {} THEN -1 ELSE CHOOSE p \in hits : \A r \in hits : p <= r

(* the first window, wherever the terms stand                              *)
first_window(text, terms) == SubSeq(text, 1, Min(window_chars, Len(text)))

make_snippet(text, terms) ==
    LET ltext == lower(text)
        found == { StrFind(ltext, lower(terms[k])) : k \in 1..Len(terms) } \ {-1}
    IN  IF found = {} THEN SubSeq(text, 1, Min(window_chars, Len(text)))
        ELSE LET best  == CHOOSE p \in found : \A r \in found : p <= r
                 start == IF best > window_chars \div 3 THEN best - window_chars \div 3 ELSE 0
                 end   == Min(start + window_chars, Len(text))
             IN  SubSeq(text, start + 1, end)

(***************************************************************************)
(* search_service.cpp: candidate generation, NOT exclusion, BM25, ordering *)
(***************************************************************************)
RECURSIVE intersect_merge(_, _)
intersect_merge(a, b) ==
    IF a = <<>> \/ b = <<>> THEN <<>>
    ELSE IF Head(a) = Head(b) THEN <<Head(a)>> \o intersect_merge(Tail(a), Tail(b))
    ELSE IF Head(a) < Head(b) THEN intersect_merge(Tail(a), b)
    ELSE intersect_merge(a, Tail(b))

(* the first list, sorted, whatever the second holds                       *)
first_list(a, b) == SortSeq(a, IntLess)

intersect_sorted(a, b) == intersect_merge(SortSeq(a, IntLess), SortSeq(b, IntLess))

push_unique(out, x) == IF out = <<>> \/ out[Len(out)] # x THEN Append(out, x) ELSE out

RECURSIVE union_merge(_, _, _)
union_merge(a, b, out) ==
    IF a = <<>> /\ b = <<>> THEN out
    ELSE IF b = <<>> THEN union_merge(Tail(a), b, push_unique(out, Head(a)))
    ELSE IF a = <<>> THEN union_merge(a, Tail(b), push_unique(out, Head(b)))
    ELSE IF Head(a) < Head(b) THEN union_merge(Tail(a), b, push_unique(out, Head(a)))
    ELSE IF Head(b) < Head(a) THEN union_merge(a, Tail(b), push_unique(out, Head(b)))
    ELSE union_merge(Tail(a), Tail(b), push_unique(out, Head(a)))

union_sorted(a, b) == union_merge(SortSeq(a, IntLess), SortSeq(b, IntLess), <<>>)

(* Step 1 of search_scored: fold the positive terms over the index         *)
RECURSIVE candidates_fold(_, _, _, _)
candidates_fold(index, terms, is_or, result) ==
    IF terms = <<>> THEN result
    ELSE LET docs == InvertedIndex_search(index, Head(terms))
         IN  candidates_fold(index, Tail(terms), is_or,
                 IF is_or THEN union_sorted(result, docs) ELSE intersect_sorted(result, docs))

candidates(index, pq) ==
    IF pq.terms = <<>> THEN <<>>
    ELSE candidates_fold(index, Tail(pq.terms), pq.is_or,
                         InvertedIndex_search(index, Head(pq.terms)))

excluded(index, pq) ==
    UNION { Range(InvertedIndex_search(index, pq.not_terms[k])) : k \in 1..Len(pq.not_terms) }

(* 1e5 * ln(n) for n = 1..24, the values std::log takes in the model       *)
LnE5 == <<0, 69315, 109861, 138629, 160944, 179176, 194591, 207944,
          219722, 230259, 239790, 248491, 256495, 263906, 270805, 277259,
          283321, 289037, 294444, 299573, 304452, 309104, 313549, 317805>>

(* idf = log(((N - df + 0.5) / (df + 0.5)) + 1.0) = ln((2N+2) / (2df+1))   *)
idf(N, df) == LnE5[2 * N + 2] - LnE5[2 * df + 1]

(* tf_part without length normalisation: denom_norm = 1.0                  *)
tf_part_no_length(tf, dl, avgdl) == <<22 * tf, 10 * tf + 12>>

(* tf_part with dl / avgdl computed whatever avgdl is                      *)
tf_part_unguarded(tf, dl, avgdl) ==
    <<22 * tf * avgdl[1], 10 * tf * avgdl[1] + 3 * avgdl[1] + 9 * dl * avgdl[2]>>

(* tf_part = tf*(k1+1) / (tf + k1*denom_norm), k1 = 1.2, b = 0.75, with    *)
(* denom_norm = 1 - b + b*dl/avgdl when avgdl > 0 and 1.0 otherwise; as a  *)
(* fraction <<numerator, denominator>> of integers                         *)
tf_part(tf, dl, avgdl) ==
    IF avgdl[1] > 0
    THEN <<22 * tf * avgdl[1], 10 * tf * avgdl[1] + 3 * avgdl[1] + 9 * dl * avgdl[2]>>
    ELSE <<22 * tf, 10 * tf + 12>>

term_tf(index, term, docId) ==
    LET ps == InvertedIndex_postings(index, term)
        j  == DocPos(ps, docId)
    IN  IF j = 0 THEN 0 ELSE ps[j][2]

RECURSIVE bm25(_, _, _, _)
bm25(s, terms, docId, dl) ==
    IF terms = <<>> THEN 0
    ELSE LET df   == InvertedIndex_df(s.idx_, Head(terms))
             tf   == term_tf(s.idx_, Head(terms), docId)
             part == tf_part(tf, dl, s.avgdl_)
             rest == bm25(s, Tail(terms), docId, dl)
         IN  IF df = 0 \/ tf = 0 THEN rest
             ELSE (idf(s.N_, df) * part[1]) \div part[2] + rest

(* an order by docId alone                                                 *)
by_doc_id(a, b) == a[1] < b[1]

ScoredBefore(a, b) == IF a[2] # b[2] THEN a[2] > b[2] ELSE a[1] < b[1]

(* Step 2 of search_scored: drop excluded and length-less candidates,      *)
(* score the rest and sort by (score desc, docId asc)                      *)
RECURSIVE score_candidates(_, _, _, _)
score_candidates(s, pq, result, excl) ==
    IF result = <<>> THEN <<>>
    ELSE LET docId == Head(result)
             rest  == score_candidates(s, pq, Tail(result), excl)
         IN  IF docId \in excl \/ docId \notin DOMAIN s.doc_len_ THEN rest
             ELSE << <<docId, bm25(s, pq.terms, docId, s.doc_len_[docId])>> >> \o rest

(* a search that matches every document, with score 0                      *)
match_all(s, query) ==
    LET ids == SetToSortedSeq(DOMAIN s.doc_len_)
    IN  [k \in 1..Len(ids) |-> <<ids[k], 0>>]

search_scored(s, query) ==
    LET pq == parse_query(query)
    IN  IF pq.terms = <<>> THEN <<>>
        ELSE SortSeq(score_candidates(s, pq, candidates(s.idx_, pq), excluded(s.idx_, pq)),
                     ScoredBefore)

search(s, query) ==
    LET scored == search_scored(s, query)
    IN  [k \in 1..Len(scored) |-> scored[k][1]]

doc_text_of(s, id) == IF id \in DOMAIN s.doc_text_ THEN s.doc_text_[id] ELSE <<>>

search_with_snippets(s, query) ==
    LET pq     == parse_query(query)
        scored == search_scored(s, query)
    IN  [k \in 1..Len(scored) |->
            <<scored[k][1], scored[k][2], make_snippet(doc_text_of(s, scored[k][1]), pq.terms)>>]

(***************************************************************************)
(* search_service.cpp: the service state and add_document                  *)
(***************************************************************************)
EmptyService ==
    [idx_ |-> EmptyIndex, doc_text_ |-> <<>>, doc_len_ |-> <<>>, N_ |-> 0, avgdl_ |-> <<0, 1>>]

MapPut(m, k, v) == [x \in (DOMAIN m) \cup {k} |-> IF x = k THEN v ELSE m[x]]

RECURSIVE SumLen(_, _)
SumLen(m, keys) ==
    IF keys = {} THEN 0
    ELSE LET k == CHOOSE x \in keys : TRUE IN m[k] + SumLen(m, keys \ {k})

(* (double)total / (double)N as a fraction in lowest terms; 0.0 is <<0,1>> *)
Fraction(total, n) ==
    IF n <= 0 \/ total = 0 THEN <<0, 1>>
    ELSE LET g == Gcd(total, n) IN <<total \div g, n \div g>>

(* the statements of SearchService::add_document, in order                 *)
add_index(s, doc_id, text) ==
    [s EXCEPT !.idx_ = InvertedIndex_add_document(s.idx_, doc_id, text)]

(* the tables with the length of the text in bytes as document length      *)
add_tables_bytes(s, doc_id, text) ==
    [s EXCEPT !.doc_text_ = MapPut(s.doc_text_, doc_id, text),
              !.doc_len_ = MapPut(s.doc_len_, doc_id, Len(text))]

add_tables(s, doc_id, text) ==
    [s EXCEPT !.doc_text_ = MapPut(s.doc_text_, doc_id, text),
              !.doc_len_ = MapPut(s.doc_len_, doc_id, Len(tokenize(text)))]

add_stats(s) ==
    LET n == Cardinality(DOMAIN s.doc_len_)
    IN  [s EXCEPT !.N_ = n, !.avgdl_ = Fraction(SumLen(s.doc_len_, DOMAIN s.doc_len_), n)]

add_document(s, doc_id, text) ==
    add_stats(add_tables(add_index(s, doc_id, text), doc_id, text))

(***************************************************************************)
(* Files.  A file is [exists, data]; data is a sequence of integers.       *)
(* postings.bin is modelled byte by byte.  The two JSON files are modelled *)
(* token by token: the structural characters and the bytes inside string   *)
(* literals are themselves, an object key is one token (JsonKey), a        *)
(* number literal is one token (JsonNum) and a double is the token         *)
(* JsonReal followed by numerator and denominator (jsoncpp prints doubles  *)
(* with 17 significant digits, which reads back as the same double).       *)
(***************************************************************************)
NoFile == [exists |-> FALSE, data |-> <<>>]

File(data) == [exists |-> TRUE, data |-> data]

FinalNames == {"index_meta.json", "docs.jsonl", "postings.bin"}

TmpNames == {"index_meta.json.tmp", "docs.jsonl.tmp", "postings.bin.tmp", "postings.bin.tmp.tmp"}

FileNames == FinalNames \cup TmpNames

EmptyDir == [f \in FileNames |-> NoFile]

JsonTok(name) ==
    CASE name = "N" -> 301
      [] name = "avgdl" -> 302
      [] name = "schema_version" -> 303
      [] name = "docId" -> 304
      [] name = "text" -> 305
      [] name = "double" -> 402

JsonKey(name) == JsonTok(name)

JsonKeys == 301..305

(* the token that opens a double: numerator and denominator follow        *)
JsonReal == JsonTok("double")

(* an integer literal v is the single token JsonNum(v)                     *)
JsonNum(v) == 1000000 + v

IsJsonNum(tok) == tok > 500000

JsonNumValue(tok) == tok - 1000000

(* string literals: '"' and '\' and the newline are escaped by the writer  *)
RECURSIVE json_escape(_)
json_escape(text) ==
    IF text = <<>> THEN <<>>
    ELSE (CASE Head(text) = 34 -> <<92, 34>>
            [] Head(text) = 92 -> <<92, 92>>
            [] Head(text) = 10 -> <<92, 110>>
            [] OTHER -> <<Head(text)>>) \o json_escape(Tail(text))

JsonString(text) == <<34>> \o json_escape(text) \o <<34>>

(* search_service.cpp:320-329, keys in jsoncpp's (alphabetical) order      *)
MetaTokens(n, avgdl, schema_version) ==
    <<123, JsonKey("N"), JsonNum(n), JsonKey("avgdl"), JsonReal, JsonNum(avgdl[1]),
      JsonNum(avgdl[2]), JsonKey("schema_version"), JsonNum(schema_version), 125>>

MetaJson(s) == MetaTokens(s.N_, s.avgdl_, 1)

(* search_service.cpp:342-347, one row and its "\n"                        *)
DocRowJson(docId, text) ==
    <<123, JsonKey("docId"), JsonNum(docId), JsonKey("text")>> \o JsonString(text) \o <<125, 10>>

(* the rows of docs.jsonl in ascending docId order (std::sort of the keys) *)
DocRows(s) ==
    LET ids == SetToSortedSeq(DOMAIN s.doc_text_)
    IN  [k \in 1..Len(ids) |-> DocRowJson(ids[k], s.doc_text_[ids[k]])]

(* ---- the JSON reader (Json::operator>>): a whole object or an error ---- *)
JsonFail == [ok |-> FALSE, obj |-> <<>>]

(* the string literal whose opening quote is at i-1: [ok, text, next]      *)
RECURSIVE json_string(_, _, _)
json_string(toks, i, acc) ==
    IF i > Len(toks) THEN [ok |-> FALSE, text |-> acc, next |-> i]
    ELSE IF toks[i] = 34 THEN [ok |-> TRUE, text |-> acc, next |-> i + 1]
    ELSE IF toks[i] = 92
         THEN IF i + 1 > Len(toks) THEN [ok |-> FALSE, text |-> acc, next |-> i]
              ELSE json_string(toks, i + 2,
                       Append(acc, IF toks[i + 1] = 110 THEN 10 ELSE toks[i + 1]))
    ELSE json_string(toks, i + 1, Append(acc, toks[i]))

(* members from position i (a key or the closing brace) to the end         *)
RECURSIVE json_members(_, _, _)
json_members(toks, i, obj) ==
    IF i > Len(toks) THEN JsonFail
    ELSE IF toks[i] = 125
         THEN IF i = Len(toks) THEN [ok |-> TRUE, obj |-> obj] ELSE JsonFail
    ELSE IF toks[i] \notin JsonKeys \/ i + 1 > Len(toks) THEN JsonFail
    ELSE IF IsJsonNum(toks[i + 1])
         THEN json_members(toks, i + 2, MapPut(obj, toks[i], JsonNumValue(toks[i + 1])))
    ELSE IF toks[i + 1] = JsonReal
         THEN IF i + 3 > Len(toks) THEN JsonFail
              ELSE json_members(toks, i + 4,
                       MapPut(obj, toks[i], <<JsonNumValue(toks[i + 2]), JsonNumValue(toks[i + 3])>>))
    ELSE IF toks[i + 1] = 34
         THEN LET str == json_string(toks, i + 2, <<>>)
              IN  IF str.ok THEN json_members(toks, str.next, MapPut(obj, toks[i], str.text))
                  ELSE JsonFail
    ELSE JsonFail

ParseJson(toks) ==
    IF toks = <<>> \/ toks[1] # 123 THEN JsonFail ELSE json_members(toks, 2, <<>>)

(* Json::Value::get(key, default)                                          *)
JsonGet(obj, name, default) ==
    IF JsonKey(name) \in DOMAIN obj THEN obj[JsonKey(name)] ELSE default

(* std::getline over the stream: the pieces between '\n' bytes; the last   *)
(* piece counts when it is not empty                                       *)
RECURSIVE split_lines(_, _, _, _)
split_lines(data, i, cur, lines) ==
    IF i > Len(data) THEN flush(cur, lines)
    ELSE IF data[i] = 10 THEN split_lines(data, i + 1, <<>>, Append(lines, cur))
    ELSE split_lines(data, i + 1, Append(cur, data[i]), lines)

getlines(data) == split_lines(data, 1, <<>>, <<>>)

(***************************************************************************)
(* inverted_index.cpp:66-109, little-endian integers                       *)
(***************************************************************************)
(* byte k (1 = least significant) of the two's complement of v             *)
ByteOf(v, k) == IF k > 4 THEN (IF v < 0 THEN 255 ELSE 0) ELSE (v \div (256 ^ (k - 1))) % 256

write_u32(v) == [k \in 1..4 |-> ByteOf(v, k)]

write_u64(v) == [k \in 1..8 |-> ByteOf(v, k)]

write_i32(v) == write_u32(v)

(* a reader is [ok, val, pos]: pos is the offset of the next unread byte   *)
(* (0-based); ok is FALSE once a read ran past the end of the file.  A     *)
(* value of 2^31 or more is reported as Huge: it exceeds any file here.    *)
Huge == 127 * 16777216 + 16777215

read_u32(bytes, pos) ==
    IF pos + 4 > Len(bytes) THEN [ok |-> FALSE, val |-> 0, pos |-> pos]
    ELSE [ok |-> TRUE, pos |-> pos + 4,
          val |-> IF bytes[pos + 4] >= 128 THEN Huge
                  ELSE bytes[pos + 1] + 256 * bytes[pos + 2] + 65536 * bytes[pos + 3]
                       + 16777216 * bytes[pos + 4]]

read_u64(bytes, pos) ==
    IF pos + 8 > Len(bytes) THEN [ok |-> FALSE, val |-> 0, pos |-> pos]
    ELSE [ok |-> TRUE, pos |-> pos + 8,
          val |-> IF \E k \in 5..8 : bytes[pos + k] # 0 THEN Huge
                  ELSE read_u32(bytes, pos).val]

read_i32(bytes, pos) ==
    IF pos + 4 > Len(bytes) THEN [ok |-> FALSE, val |-> 0, pos |-> pos]
    ELSE [ok |-> TRUE, pos |-> pos + 4,
          val |-> bytes[pos + 1] + 256 * bytes[pos + 2] + 65536 * bytes[pos + 3]
                  + 16777216 * (IF bytes[pos + 4] >= 128 THEN bytes[pos + 4] - 256
                                ELSE bytes[pos + 4])]

(***************************************************************************)
(* InvertedIndex::save, lines 130-161: the bytes of the postings file      *)
(***************************************************************************)
PostingByDocId(a, b) == a[1] < b[1]

(* the terms in the order in which the index holds them                    *)
UnsortedTerms(index) == [i \in 1..Len(index) |-> index[i].term]

SortedTerms(index) == SortSeq([i \in 1..Len(index) |-> index[i].term], StrLess)

SortedPostings(post) == SortSeq(post, PostingByDocId)

RECURSIVE PostingBytes(_)
PostingBytes(post) ==
    IF post = <<>> THEN <<>>
    ELSE write_i32(Head(post)[1]) \o write_i32(Head(post)[2]) \o PostingBytes(Tail(post))

TermBytes(index, term) ==
    LET post == SortedPostings(index[TermPos(index, term)].post)
    IN  write_u32(Len(term)) \o term \o write_u32(Len(post)) \o PostingBytes(post)

(* the file as the chunks written one after the other: count, then terms   *)
PostingsChunks(index) ==
    LET terms == SortedTerms(index)
    IN  <<write_u64(Len(terms))>> \o [k \in 1..Len(terms) |-> TermBytes(index, terms[k])]

PostingsBytes(index) == Concat(PostingsChunks(index))

(***************************************************************************)
(* InvertedIndex::load, lines 177-208                                      *)
(***************************************************************************)
(* postMap[docId] = tf                                                     *)
PostSet(post, docId, tf) ==
    LET j == DocPos(post, docId)
    IN  IF j = 0 THEN Append(post, <<docId, tf>>) ELSE [post EXCEPT ![j] = <<docId, tf>>]

RECURSIVE read_postings(_, _, _, _)
read_postings(bytes, pos, count, post) ==
    IF count = 0 THEN [ok |-> TRUE, pos |-> pos, post |-> post]
    ELSE LET d == read_i32(bytes, pos)
             t == read_i32(bytes, d.pos)
         IN  IF ~d.ok \/ ~t.ok THEN [ok |-> FALSE, pos |-> pos, post |-> post]
             ELSE read_postings(bytes, t.pos, count - 1, PostSet(post, d.val, t.val))

RECURSIVE read_terms(_, _, _, _)
read_terms(bytes, pos, count, newIndex) ==
    IF count = 0 THEN [ok |-> TRUE, index |-> newIndex]
    ELSE LET len == read_u32(bytes, pos)
         IN  IF ~len.ok \/ len.val > Len(bytes) - len.pos
             THEN [ok |-> FALSE, index |-> newIndex]
             ELSE LET term  == SubSeq(bytes, len.pos + 1, len.pos + len.val)
                      cnt   == read_u32(bytes, len.pos + len.val)
                      i     == TermPos(newIndex, term)
                      base  == IF i = 0 THEN Append(newIndex, [term |-> term, post |-> <<>>])
                               ELSE newIndex
                      k     == IF i = 0 THEN Len(base) ELSE i
                      posts == IF cnt.ok
                               THEN read_postings(bytes, cnt.pos, cnt.val, base[k].post)
                               ELSE [ok |-> FALSE, pos |-> cnt.pos, post |-> <<>>]
                  IN  IF ~posts.ok THEN [ok |-> FALSE, index |-> newIndex]
                      ELSE read_terms(bytes, posts.pos, count - 1,
                                      [base EXCEPT ![k].post = posts.post])

(* [ok, index]: on failure index_ keeps its value ("replace only after     *)
(* successful parse")                                                      *)
(* a load that parses into index_ itself: what was read before the error   *)
(* stays                                                                   *)
load_in_place(index, file) ==
    LET termCount == read_u64(file.data, 0)
    IN  IF ~file.exists \/ ~termCount.ok THEN [ok |-> FALSE, index |-> EmptyIndex]
        ELSE read_terms(file.data, termCount.pos, termCount.val, EmptyIndex)

InvertedIndex_load(index, file) ==
    IF ~file.exists THEN [ok |-> FALSE, index |-> index]
    ELSE LET termCount == read_u64(file.data, 0)
         IN  IF ~termCount.ok THEN [ok |-> FALSE, index |-> index]
             ELSE LET parsed == read_terms(file.data, termCount.pos, termCount.val, <<>>)
                  IN  IF parsed.ok THEN parsed ELSE [ok |-> FALSE, index |-> index]

(***************************************************************************)
(* SearchService::save, lines 307-374: what is written, and in which order *)
(***************************************************************************)
(* the chunks a writer lambda sends to its stream                          *)
Chunks(what, s) ==
    CASE what = "meta" -> <<MetaJson(s)>>
      [] what = "docs" -> DocRows(s)
      [] what = "postings" -> PostingsChunks(s.idx_)
      [] OTHER -> <<>>

Stage(kind, path, to, what, checked, fallback, final) ==
    [kind |-> kind, path |-> path, to |-> to, what |-> what, checked |-> checked,
     fallback |-> fallback, final |-> final]

(* a write_atomic that never renames its temporary file                    *)
write_without_rename(tmp, final, what) ==
    << Stage("open", tmp, "", "", FALSE, FALSE, final),
       Stage("write", tmp, "", what, FALSE, FALSE, final) >>

(* write_atomic(final, writer): open final.tmp, run the writer, flush and  *)
(* close without looking at the stream, rename with the remove-and-retry   *)
(* fallback                                                                *)
write_atomic(tmp, final, what) ==
    << Stage("open", tmp, "", "", FALSE, FALSE, final),
       Stage("write", tmp, "", what, FALSE, FALSE, final),
       Stage("rename", tmp, final, "", FALSE, TRUE, final) >>

(* InvertedIndex::save(outPath), lines 111-175: open outPath.tmp, write,   *)
(* flush and test the stream, remove(outPath), rename without a retry      *)
InvertedIndex_save(tmp, outPath, final) ==
    << Stage("open", tmp, "", "", FALSE, FALSE, final),
       Stage("write", tmp, "", "postings", TRUE, FALSE, final),
       Stage("remove", outPath, "", "", FALSE, FALSE, final),
       Stage("rename", tmp, outPath, "", FALSE, FALSE, final) >>

SavePlan ==
    write_atomic("index_meta.json.tmp", "index_meta.json", "meta")
    \o write_atomic("docs.jsonl.tmp", "docs.jsonl", "docs")
    \o write_atomic("postings.bin.tmp", "postings.bin", "nothing")
    \o InvertedIndex_save("postings.bin.tmp.tmp", "postings.bin.tmp", "postings.bin")
    \o << Stage("rename", "postings.bin.tmp", "postings.bin", "", FALSE, TRUE, "postings.bin") >>

(* the directory a save of s is meant to leave behind                      *)
DirImage(s) ==
    [f \in FileNames |->
        CASE f = "index_meta.json" -> File(MetaJson(s))
          [] f = "docs.jsonl" -> File(Concat(DocRows(s)))
          [] f = "postings.bin" -> File(PostingsBytes(s.idx_))
          [] OTHER -> NoFile]

(***************************************************************************)
(* SearchService::load, lines 376-449, as its three phases.  Each returns  *)
(* [err, s]: the error thrown ("none" when the phase completed) and the    *)
(* service state the phase leaves behind.                                  *)
(***************************************************************************)
(* a require_file that finds every file, a schema test that accepts every  *)
(* version                                                                 *)
file_assumed(dir, name) == TRUE

schema_unchecked(schema_version) == TRUE

require_file(dir, name) == dir[name].exists

(* line 404: if (schema_version != 1) throw                                *)
schema_supported(schema_version) == schema_version = 1

(* lines 386-411: the three require_file calls, the metadata, the schema   *)
(* check, and the assignment of N_ and avgdl_                              *)
load_meta(s, dir) ==
    IF ~require_file(dir, "index_meta.json") THEN [err |-> "File does not exist: index_meta.json", s |-> s]
    ELSE IF ~require_file(dir, "docs.jsonl") THEN [err |-> "File does not exist: docs.jsonl", s |-> s]
    ELSE IF ~require_file(dir, "postings.bin") THEN [err |-> "File does not exist: postings.bin", s |-> s]
    ELSE LET meta == ParseJson(dir["index_meta.json"].data)
         IN  IF ~meta.ok THEN [err |-> "index_meta.json: parse error", s |-> s]
             ELSE IF ~schema_supported(JsonGet(meta.obj, "schema_version", 0))
                  THEN [err |-> "Unsupported schema_version: "
                                   \o ToString(JsonGet(meta.obj, "schema_version", 0)),
                        s |-> s]
             ELSE [err |-> "none",
                   s |-> [s EXCEPT !.N_ = JsonGet(meta.obj, "N", 0),
                                   !.avgdl_ = JsonGet(meta.obj, "avgdl", <<0, 1>>)]]

(* lines 423-444: the getline loop; a throw leaves the rows read so far    *)
RECURSIVE load_lines(_, _)
load_lines(lines, st) ==
    IF lines = <<>> THEN st
    ELSE IF Head(lines) = <<>> THEN load_lines(Tail(lines), st)
    ELSE LET row == ParseJson(Head(lines))
         IN  IF ~row.ok THEN [st EXCEPT !.err = "docs.jsonl: parse error"]
             ELSE LET docId == JsonGet(row.obj, "docId", -1)
                      text  == JsonGet(row.obj, "text", <<>>)
                  IN  IF docId < 0 THEN [st EXCEPT !.err = "Invalid docId in docs.jsonl"]
                      ELSE load_lines(Tail(lines),
                               [st EXCEPT !.s = add_tables(st.s, docId, text)])

(* docs.jsonl read into the tables as they are, without clearing them      *)
load_docs_merging(s, dir) ==
    load_lines(getlines(dir["docs.jsonl"].data), [err |-> "none", s |-> s])

(* lines 414-445: clear both tables, then read docs.jsonl                  *)
load_docs(s, dir) ==
    load_lines(getlines(dir["docs.jsonl"].data),
               [err |-> "none", s |-> [s EXCEPT !.doc_text_ = <<>>, !.doc_len_ = <<>>]])

(* a load that leaves the index as it is                                   *)
load_no_postings(s, dir) == [err |-> "none", s |-> s]

(* line 448                                                                *)
load_postings(s, dir) ==
    LET r == InvertedIndex_load(s.idx_, dir["postings.bin"])
    IN  [err |-> IF r.ok THEN "none" ELSE "postings.bin: read error", s |-> [s EXCEPT !.idx_ = r.index]]

(* SearchService::load as one function                                     *)
load(s, dir) ==
    LET m == load_meta(s, dir)
        d == load_docs(m.s, dir)
    IN  IF m.err # "none" THEN m ELSE IF d.err # "none" THEN d ELSE load_postings(d.s, dir)

(***************************************************************************)
(* The state machine.                                                      *)
(*   svc    the SearchService objects (ss, ss2 as in the tests)            *)
(*   mu     each service's std::shared_mutex mu_                           *)
(*   disk   the index directories, each a map from file name to file       *)
(*   pc     where each thread stands                                       *)
(*   call   each thread's current (or last) call: arguments, locals,       *)
(*          outcome                                                        *)
(*   budget how many more calls of each kind a thread may start            *)
(*   faults the I/O failures injected so far                               *)
(*   hist   history: the service states left behind by each release of     *)
(*          the exclusive lock, oldest first (empty: not recorded)         *)
(*   saved  history: the service state last saved completely to each       *)
(*          directory, with valid = FALSE while none is                    *)
(***************************************************************************)
VARIABLES svc, mu, disk, pc, call, budget, faults, hist, saved, searchd

vars == <<svc, mu, disk, pc, call, budget, faults, hist, saved, searchd>>

(* searchd before main() is entered: nothing printed, no exit code (-1),   *)
(* the globals of src/apps/searchd/main.cpp lines 22-27 as initialised     *)
NotStarted ==
    [stage |-> "not_started", argv |-> <<>>, fs |-> <<>>, port |-> 0, out |-> <<>>, err |-> <<>>,
     exit |-> -1, failed |-> "none", load_err |-> "not_run", s |-> EmptyService,
     handlers |-> FALSE, binds |-> <<>>, g_server_ready |-> FALSE,
     g_shutdown_requested |-> FALSE, g_shutdown_in_progress |-> FALSE,
     handling |-> 0, quit_calls |-> 0, loop_quit |-> FALSE, sigs |-> <<>>, reqs |-> <<>>]

MaxAdds == 2

MaxLoads == 1

MaxSaves == 2

MaxSearches == 1

MaxFaults == 1

(* the documents an add_document call may carry: <<docId, text>>           *)
DocInputs ==
    { <<1, <<97>>>>,                  (* 1: "a"     *)
      <<2, <<66, 32, 97, 45, 97>>>>,  (* 2: "B a-a" *)
      <<1, <<98>>>>,                  (* 1: "b"     *)
      <<3, <<>>>>,                    (* 3: ""      *)
      <<-1, <<97>>>> }                (* -1: "a"    *)

(* the documents of the specifications that only save: 1: "b",            *)
(* 2: "B a-a", -1: "a"                                                     *)
SavedDocInputs ==
    { d \in DocInputs : d[2] # <<>> /\ d # <<1, <<97>>>> }

(* "a", "b a", "a OR b", "a -b", "-a"                                      *)
Queries ==
    { <<97>>, <<98, 32, 97>>, <<97, 32, 79, 82, 32, 98>>, <<97, 32, 45, 98>>, <<45, 97>> }

SearchOps == {"search", "search_scored", "search_with_snippets"}

Unlocked == [writer |-> "none", readers |-> {}]

(* a lock object whose destructor leaves the mutex held                    *)
unlock_leaked(m, s) == m

(* ~unique_lock: the exclusive lock is given back when the operation       *)
(* returns and when an exception unwinds it                                *)
unlock(m, s) == [m EXCEPT ![s].writer = "none"]

NoSaved == [valid |-> FALSE, s |-> EmptyService, from |-> "none"]

NoCall ==
    [op |-> "none", s |-> "ss", doc_id |-> 0, text |-> <<>>, dir |-> "", query |-> <<>>,
     err |-> "none", result |-> <<>>, cand |-> <<>>, excl |-> {}, scored |-> <<>>,
     k |-> 0, j |-> 0, bad |-> FALSE, retry |-> FALSE, failed_file |-> "none",
     pre |-> EmptyService, old |-> EmptyDir, start |-> 0]

NoBudget == [add |-> 0, load |-> 0, save |-> 0, search |-> 0]

(* locks that do not exclude: an exclusive lock granted while readers hold *)
(* shared access, a shared lock granted while a writer holds the mutex     *)
ExclusiveIgnoresReaders(s) == mu[s].writer = "none"

SharedIgnoresWriter(s) == TRUE

(* std::unique_lock lock(mu_) and std::shared_lock lock(mu_)               *)
(* a shared lock that is granted to one reader at a time                   *)
SharedExcludesReaders(s) == mu[s].writer = "none" /\ mu[s].readers = {}

(* an exclusive lock that is granted at once, whoever holds the mutex      *)
ExclusiveNeverWaits(s) == TRUE

CanLockExclusive(s) == mu[s].writer = "none" /\ mu[s].readers = {}

CanLockShared(s) == mu[s].writer = "none"

(* the exclusive lock is released by thread t's return, leaving state st   *)
Recorded(s, st, op, err) ==
    IF hist[s] = <<>> THEN hist
    ELSE [hist EXCEPT ![s] = Append(@, [st |-> st, op |-> op, err |-> err])]

Invoke(t, kind, c, label) ==
    /\ pc[t] = "idle"
    /\ budget[t][kind] > 0
    /\ budget' = [budget EXCEPT ![t][kind] = @ - 1]
    /\ call' = [call EXCEPT ![t] = [c EXCEPT !.start = Len(hist[c.s])]]
    /\ pc' = [pc EXCEPT ![t] = label]
    /\ UNCHANGED <<searchd, svc, mu, disk, faults, hist, saved>>

FirstStep(op) ==
    CASE op = "add_document" -> "add_index"
      [] op = "load" -> "load_meta"
      [] op = "save" -> "save"
      [] OTHER -> "search_candidates"

AcquireExclusive(t) ==
    /\ pc[t] = "lock_exclusive"
    /\ CanLockExclusive(call[t].s)
    /\ mu' = [mu EXCEPT ![call[t].s].writer = t]
    /\ pc' = [pc EXCEPT ![t] = FirstStep(call[t].op)]
    /\ call' = [call EXCEPT ![t].pre = svc[call[t].s], ![t].k = 1,
                            ![t].old = IF call[t].dir \in DOMAIN disk THEN disk[call[t].dir]
                                       ELSE EmptyDir]
    /\ UNCHANGED <<searchd, svc, disk, budget, faults, hist, saved>>

AcquireShared(t) ==
    /\ pc[t] = "lock_shared"
    /\ CanLockShared(call[t].s)
    /\ mu' = [mu EXCEPT ![call[t].s].readers = @ \cup {t}]
    /\ pc' = [pc EXCEPT ![t] = FirstStep(call[t].op)]
    /\ UNCHANGED <<searchd, svc, disk, call, budget, faults, hist, saved>>

(* ---- add_document, lines 30-49 ---------------------------------------- *)
AddInvoke(t, s, doc) ==
    Invoke(t, "add", [NoCall EXCEPT !.op = "add_document", !.s = s, !.doc_id = doc[1],
                                    !.text = doc[2]], "lock_exclusive")

AddIndex(t) ==
    /\ pc[t] = "add_index"
    /\ svc' = [svc EXCEPT ![call[t].s] = add_index(@, call[t].doc_id, call[t].text)]
    /\ pc' = [pc EXCEPT ![t] = "add_tables"]
    /\ UNCHANGED <<searchd, mu, disk, call, budget, faults, hist, saved>>

AddTables(t) ==
    /\ pc[t] = "add_tables"
    /\ svc' = [svc EXCEPT ![call[t].s] = add_tables(@, call[t].doc_id, call[t].text)]
    /\ pc' = [pc EXCEPT ![t] = "add_stats"]
    /\ UNCHANGED <<searchd, mu, disk, call, budget, faults, hist, saved>>

AddStats(t) ==
    /\ pc[t] = "add_stats"
    /\ svc' = [svc EXCEPT ![call[t].s] = add_stats(@)]
    /\ mu' = unlock(mu, call[t].s)
    /\ pc' = [pc EXCEPT ![t] = "idle"]
    /\ hist' = Recorded(call[t].s, add_stats(svc[call[t].s]), "add_document", "none")
    /\ UNCHANGED <<searchd, disk, call, budget, faults, saved>>

(* ---- load, lines 376-449 ---------------------------------------------- *)
LoadInvoke(t, s, dir) ==
    Invoke(t, "load", [NoCall EXCEPT !.op = "load", !.s = s, !.dir = dir], "lock_exclusive")

(* one phase of load: on "none" go on to `next`, otherwise the exception   *)
(* leaves load and the lock is released                                    *)
LoadPhase(t, r, next) ==
    /\ svc' = [svc EXCEPT ![call[t].s] = r.s]
    /\ call' = [call EXCEPT ![t].err = r.err]
    /\ pc' = [pc EXCEPT ![t] = IF r.err = "none" THEN next ELSE "idle"]
    /\ mu' = IF r.err = "none" /\ next # "idle" THEN mu
             ELSE unlock(mu, call[t].s)
    /\ hist' = IF r.err = "none" /\ next # "idle" THEN hist
               ELSE Recorded(call[t].s, r.s, "load", r.err)
    /\ UNCHANGED <<searchd, disk, budget, faults, saved>>

LoadMeta(t) ==
    /\ pc[t] = "load_meta"
    /\ LoadPhase(t, load_meta(svc[call[t].s], disk[call[t].dir]), "load_docs")

LoadDocs(t) ==
    /\ pc[t] = "load_docs"
    /\ LoadPhase(t, load_docs(svc[call[t].s], disk[call[t].dir]), "load_postings")

LoadPostings(t) ==
    /\ pc[t] = "load_postings"
    /\ LoadPhase(t, load_postings(svc[call[t].s], disk[call[t].dir]), "idle")

(* ---- search, search_scored, search_with_snippets, lines 144-275 -------- *)
SearchInvoke(t, s, op, query) ==
    Invoke(t, "search", [NoCall EXCEPT !.op = op, !.s = s, !.query = query], "lock_shared")

(* lines 184-212: the candidates and the exclusion set, read from idx_     *)
SearchCandidates(t) ==
    /\ pc[t] = "search_candidates"
    /\ LET pq == parse_query(call[t].query)
           s  == svc[call[t].s]
       IN  call' = [call EXCEPT ![t].cand = candidates(s.idx_, pq),
                                ![t].excl = excluded(s.idx_, pq)]
    /\ pc' = [pc EXCEPT ![t] = "search_score"]
    /\ UNCHANGED <<searchd, svc, mu, disk, budget, faults, hist, saved>>

(* lines 214-275: score, sort, return (the shared lock is released); then  *)
(* search keeps the docIds and search_with_snippets goes on to its loop    *)
SearchScore(t) ==
    /\ pc[t] = "search_score"
    /\ LET pq     == parse_query(call[t].query)
           scored == IF pq.terms = <<>> THEN <<>>
                     ELSE SortSeq(score_candidates(svc[call[t].s], pq, call[t].cand,
                                                   call[t].excl), ScoredBefore)
           snip   == call[t].op = "search_with_snippets" /\ scored # <<>>
       IN  /\ call' = [call EXCEPT ![t].scored = scored, ![t].j = 0,
                          ![t].result = CASE call[t].op = "search" ->
                                                 [k \in 1..Len(scored) |-> scored[k][1]]
                                          [] call[t].op = "search_scored" -> scored
                                          [] OTHER -> <<>>]
           /\ pc' = [pc EXCEPT ![t] = IF snip THEN "snippets" ELSE "idle"]
    /\ mu' = [mu EXCEPT ![call[t].s].readers = @ \ {t}]
    /\ UNCHANGED <<searchd, svc, disk, budget, faults, hist, saved>>

(* lines 161-174: one turn of the loop over the scored hits; doc_text_ is  *)
(* read with no lock held                                                  *)
SnippetStep(t) ==
    /\ pc[t] = "snippets"
    /\ LET hit == call[t].scored[call[t].j + 1]
           pq  == parse_query(call[t].query)
           txt == doc_text_of(svc[call[t].s], hit[1])
       IN  call' = [call EXCEPT ![t].j = @ + 1,
                       ![t].result = Append(@, <<hit[1], hit[2], make_snippet(txt, pq.terms)>>)]
    /\ pc' = [pc EXCEPT ![t] = IF call[t].j + 1 = Len(call[t].scored) THEN "idle" ELSE "snippets"]
    /\ UNCHANGED <<searchd, svc, mu, disk, budget, faults, hist, saved>>

(* ---- save, lines 307-374, stage call[t].k of SavePlan at a time ------- *)
SaveInvoke(t, s, dir) ==
    Invoke(t, "save", [NoCall EXCEPT !.op = "save", !.s = s, !.dir = dir], "lock_exclusive")

CurStage(t) == SavePlan[call[t].k]

SaveAt(t, kind) == pc[t] = "save" /\ CurStage(t).kind = kind

(* the stage is done: the next one, or the return from save                *)
SaveAdvance(t, c) ==
    LET last == call[t].k = Len(SavePlan)
    IN  /\ call' = [call EXCEPT ![t] = [c EXCEPT !.k = @ + 1, !.j = 0, !.retry = FALSE]]
        /\ pc' = [pc EXCEPT ![t] = IF last THEN "idle" ELSE "save"]
        /\ mu' = IF last THEN unlock(mu, call[t].s) ELSE mu
        /\ hist' = IF last THEN Recorded(call[t].s, svc[call[t].s], "save", c.err) ELSE hist
        /\ saved' = IF last /\ c.failed_file = "none"
                    THEN [saved EXCEPT ![call[t].dir] = [valid |-> TRUE, s |-> svc[call[t].s],
                                                          from |-> call[t].s]]
                    ELSE saved

(* throw std::runtime_error: the lock is released by the unwinding         *)
SaveThrow(t, c, err) ==
    /\ call' = [call EXCEPT ![t] = [c EXCEPT !.err = err]]
    /\ pc' = [pc EXCEPT ![t] = "idle"]
    /\ mu' = unlock(mu, call[t].s)
    /\ hist' = Recorded(call[t].s, svc[call[t].s], "save", err)
    /\ UNCHANGED saved

(* std::ofstream out(tmp_path, mode): creates or truncates the file        *)
SaveOpen(t) ==
    /\ SaveAt(t, "open")
    /\ disk' = [disk EXCEPT ![call[t].dir][CurStage(t).path] = File(<<>>)]
    /\ SaveAdvance(t, [call[t] EXCEPT !.bad = FALSE])
    /\ UNCHANGED <<searchd, svc, budget, faults>>

(* if (!out) throw                                                         *)
SaveOpenFails(t) ==
    /\ SaveAt(t, "open")
    /\ faults < MaxFaults
    /\ faults' = faults + 1
    /\ SaveThrow(t, [call[t] EXCEPT !.failed_file = CurStage(t).final],
                 "Failed to write index file")
    /\ UNCHANGED <<searchd, svc, disk, budget>>

(* one operator<< or write of the writer; a stream that has failed ignores *)
(* it                                                                      *)
SaveWrite(t) ==
    /\ SaveAt(t, "write")
    /\ LET chunks == Chunks(CurStage(t).what, svc[call[t].s])
       IN  /\ call[t].j < Len(chunks)
           /\ disk' = IF call[t].bad THEN disk
                      ELSE [disk EXCEPT ![call[t].dir][CurStage(t).path].data =
                                            @ \o chunks[call[t].j + 1]]
    /\ call' = [call EXCEPT ![t].j = @ + 1]
    /\ UNCHANGED <<searchd, svc, mu, pc, budget, faults, hist, saved>>

(* the write fails (disk full, I/O error): the stream's badbit is set      *)
SaveWriteFails(t) ==
    /\ SaveAt(t, "write")
    /\ call[t].j < Len(Chunks(CurStage(t).what, svc[call[t].s]))
    /\ ~call[t].bad
    /\ faults < MaxFaults
    /\ faults' = faults + 1
    /\ call' = [call EXCEPT ![t].j = @ + 1, ![t].bad = TRUE,
                            ![t].failed_file = CurStage(t).final]
    /\ UNCHANGED <<searchd, svc, mu, disk, pc, budget, hist, saved>>

(* out.flush(); out.close(): InvertedIndex::save tests the stream after    *)
(* the flush (lines 163-165), write_atomic does not (lines 289-291)        *)
SaveClose(t) ==
    /\ SaveAt(t, "write")
    /\ call[t].j = Len(Chunks(CurStage(t).what, svc[call[t].s]))
    /\ IF CurStage(t).checked /\ call[t].bad
       THEN SaveThrow(t, call[t], "Failed to write index file")
       ELSE SaveAdvance(t, call[t])
    /\ UNCHANGED <<searchd, svc, disk, budget, faults>>

(* fs::remove(outPath, ec), the error ignored                              *)
SaveRemove(t) ==
    /\ SaveAt(t, "remove")
    /\ disk' = [disk EXCEPT ![call[t].dir][CurStage(t).path] = NoFile]
    /\ SaveAdvance(t, call[t])
    /\ UNCHANGED <<searchd, svc, budget, faults>>

(* fs::rename(tmp, final, ec) succeeds, at the first or the second attempt *)
SaveRename(t) ==
    /\ SaveAt(t, "rename")
    /\ disk' = [disk EXCEPT ![call[t].dir][CurStage(t).to] = disk[call[t].dir][CurStage(t).path],
                            ![call[t].dir][CurStage(t).path] = NoFile]
    /\ SaveAdvance(t, call[t])
    /\ UNCHANGED <<searchd, svc, budget, faults>>

(* fs::rename fails: write_atomic and save remove the target and retry     *)
(* once, then throw; InvertedIndex::save throws at once                    *)
SaveRenameFails(t) ==
    /\ SaveAt(t, "rename")
    /\ faults < MaxFaults
    /\ faults' = faults + 1
    /\ IF CurStage(t).fallback /\ ~call[t].retry
       THEN /\ disk' = [disk EXCEPT ![call[t].dir][CurStage(t).to] = NoFile]
            /\ call' = [call EXCEPT ![t].retry = TRUE]
            /\ UNCHANGED <<mu, pc, hist, saved>>
       ELSE /\ SaveThrow(t, call[t], IF CurStage(t).fallback THEN "Failed to commit index file"
                                     ELSE "Failed to finalize index file")
            /\ UNCHANGED disk
    /\ UNCHANGED <<searchd, svc, budget>>

(* the process stops in the middle of save                                 *)
Crash(t) ==
    /\ pc[t] = "save"
    /\ pc' = [pc EXCEPT ![t] = "crashed"]
    /\ UNCHANGED <<searchd, svc, mu, disk, call, budget, faults, hist, saved>>

(***************************************************************************)
(* Spec: one service, a writer thread (add_document, load) and a reader    *)
(* thread (search, search_scored, search_with_snippets).  The directories  *)
(* load may be given: a complete index and defective variants of it.       *)
(***************************************************************************)
GoodState == add_document(add_document(EmptyService, 1, <<98>>), 2, <<66, 32, 97, 45, 97>>)

GoodDir == DirImage(GoodState)

SpecDisk ==
    [d \in {"good", "missing", "schema", "badmeta", "badline", "negid", "trunc"} |->
        CASE d = "good" -> GoodDir
          [] d = "missing" -> [GoodDir EXCEPT !["postings.bin"] = NoFile]
          [] d = "schema" -> [GoodDir EXCEPT !["index_meta.json"] =
                                  File(MetaTokens(GoodState.N_, GoodState.avgdl_, 2))]
          [] d = "badmeta" -> [GoodDir EXCEPT !["index_meta.json"] =
                                  File(Prefix(MetaJson(GoodState), 4))]
          [] d = "badline" -> [GoodDir EXCEPT !["docs.jsonl"] =
                                  File(Prefix(@.data, Len(@.data) - 3))]
          [] d = "negid" -> DirImage(add_document(GoodState, -1, <<97>>))
          [] d = "trunc" -> [GoodDir EXCEPT !["postings.bin"] =
                                  File(Prefix(@.data, Len(@.data) - 5))]]

InitWith(services, threads, dirs, budgets, recording) ==
    /\ svc = [s \in services |-> EmptyService]
    /\ mu = [s \in services |-> Unlocked]
    /\ disk = dirs
    /\ pc = [t \in threads |-> "idle"]
    /\ call = [t \in threads |-> NoCall]
    /\ budget = budgets
    /\ faults = 0
    /\ hist = [s \in services |->
                  IF recording THEN <<[st |-> EmptyService, op |-> "init", err |-> "none"]>>
                  ELSE <<>>]
    /\ saved = [d \in DOMAIN dirs |-> NoSaved]
    /\ searchd = NotStarted

Init ==
    InitWith({"ss"}, {"w", "r1"}, SpecDisk,
             [t \in {"w", "r1"} |->
                 IF t = "w" THEN [NoBudget EXCEPT !.add = MaxAdds, !.load = MaxLoads]
                 ELSE [NoBudget EXCEPT !.search = MaxSearches]],
             TRUE)

Threads == DOMAIN pc

Next ==
    \/ \E doc \in DocInputs : AddInvoke("w", "ss", doc)
    \/ \E dir \in DOMAIN disk : LoadInvoke("w", "ss", dir)
    \/ \E op \in SearchOps, q \in Queries : SearchInvoke("r1", "ss", op, q)
    \/ \E t \in Threads : AcquireExclusive(t)
    \/ \E t \in Threads : AcquireShared(t)
    \/ \E t \in Threads : AddIndex(t)
    \/ \E t \in Threads : AddTables(t)
    \/ \E t \in Threads : AddStats(t)
    \/ \E t \in Threads : LoadMeta(t)
    \/ \E t \in Threads : LoadDocs(t)
    \/ \E t \in Threads : LoadPostings(t)
    \/ \E t \in Threads : SearchCandidates(t)
    \/ \E t \in Threads : SearchScore(t)
    \/ \E t \in Threads : SnippetStep(t)

Spec == Init /\ [][Next]_vars

(***************************************************************************)
(* Properties of Spec.  hist[s] lists the states in which the exclusive    *)
(* lock of s was released; a call invoked when hist[s] had `start` entries *)
(* can have seen the states hist[s][start] .. hist[s][Len(hist[s])].       *)
(***************************************************************************)
Observe(op, s, query) ==
    CASE op = "search" -> search(s, query)
      [] op = "search_scored" -> search_scored(s, query)
      [] OTHER -> search_with_snippets(s, query)

Finished(t, ops) == pc[t] = "idle" /\ call[t].op \in ops

OnlyAdds(h) == \A i \in 2..Len(h) : h[i].op = "add_document"

LoadParsing == {"load_meta", "load_docs", "load_postings"}

(* the claim's case of C5: the call of t began in state h[i], a successful *)
(* load of a populated service committed h[i+1] before the call returned   *)
DuringLoad(t) ==
    /\ Finished(t, {"search", "search_scored"})
    /\ LET h == hist[call[t].s]
           i == call[t].start
       IN  /\ Len(h) = i + 1
           /\ h[i + 1].op = "load"
           /\ h[i + 1].err = "none"
           /\ h[i].st.N_ > 0

(* C1: a load that fails leaves the service state (index, document text    *)
(* table, document length table, N, avgdl) exactly as it was before the    *)
(* call.                                                                   *)
C1_LoadTransactional ==
    \A s \in DOMAIN hist : \A i \in 2..Len(hist[s]) :
        (hist[s][i].op = "load" /\ hist[s][i].err # "none")
            => hist[s][i].st = hist[s][i - 1].st

(* C5: a search or search_scored call that runs while a successful load    *)
(* replaces a populated state returns the result of the complete pre-load  *)
(* state or of the complete post-load state.                               *)
C5_SearchSeesPreOrPostLoad ==
    \A t \in Threads :
        DuringLoad(t) =>
            LET h == hist[call[t].s]
                i == call[t].start
            IN  call[t].result \in {Observe(call[t].op, h[i].st, call[t].query),
                                    Observe(call[t].op, h[i + 1].st, call[t].query)}

(* a search overlapped by a successful load returned the post-load result, *)
(* which differs from the pre-load one                                     *)
C5_Witness ==
    \E t \in Threads :
        /\ DuringLoad(t)
        /\ LET h == hist[call[t].s]
               i == call[t].start
           IN  /\ call[t].result = Observe(call[t].op, h[i + 1].st, call[t].query)
               /\ call[t].result # Observe(call[t].op, h[i].st, call[t].query)
               /\ call[t].result # <<>>

(* C6: every result of search_with_snippets (docIds, scores, snippets) is  *)
(* the single-threaded result on one service state of the call's window.   *)
C6_SnippetsFromOneState ==
    \A t \in Threads :
        Finished(t, {"search_with_snippets"}) =>
            LET h == hist[call[t].s]
            IN  \E i \in call[t].start..Len(h) :
                    call[t].result = search_with_snippets(h[i].st, call[t].query)

(* C7: with only add_document calls by the writer, a reader holding shared *)
(* access sees the state after a whole prefix of the writer's calls, and a *)
(* finished search returned the single-threaded result on such a state.    *)
C7_SearchAtSerialisationPoint ==
    \A t \in Threads :
        (call[t].op = "search" /\ OnlyAdds(hist[call[t].s])) =>
            LET h == hist[call[t].s]
            IN  /\ t \in mu[call[t].s].readers => svc[call[t].s] = h[Len(h)].st
                /\ pc[t] = "idle" =>
                      \E i \in call[t].start..Len(h) :
                          call[t].result = search(h[i].st, call[t].query)

(* an add_document committed during the search, and the search returned    *)
(* the result of the state after it, which the earlier state did not give  *)
C7_Witness ==
    \E t \in Threads :
        /\ Finished(t, {"search"})
        /\ LET h == hist[call[t].s]
           IN  /\ OnlyAdds(h)
               /\ Len(h) > call[t].start
               /\ call[t].result # <<>>
               /\ call[t].result = search(h[Len(h)].st, call[t].query)
               /\ call[t].result # search(h[call[t].start].st, call[t].query)

(* C8: load never holds the exclusive lock while it reads or parses a file *)
C8_LoadParsesUnlocked ==
    \A t \in Threads :
        pc[t] \in LoadParsing => mu[call[t].s].writer # t

(***************************************************************************)
(* SpecSave: one thread that adds documents and saves to the directory     *)
(* "a", with failing opens, writes and renames and with a process stop.    *)
(***************************************************************************)
InitSave ==
    InitWith({"ss"}, {"w"}, [d \in {"a"} |-> EmptyDir],
             [t \in {"w"} |-> [NoBudget EXCEPT !.add = MaxAdds, !.save = MaxSaves]],
             FALSE)

NextSave ==
    \/ \E doc \in SavedDocInputs : AddInvoke("w", "ss", doc)
    \/ SaveInvoke("w", "ss", "a")
    \/ AcquireExclusive("w")
    \/ AddIndex("w")
    \/ AddTables("w")
    \/ AddStats("w")
    \/ SaveOpen("w")
    \/ SaveOpenFails("w")
    \/ SaveWrite("w")
    \/ SaveWriteFails("w")
    \/ SaveClose("w")
    \/ SaveRemove("w")
    \/ SaveRename("w")
    \/ SaveRenameFails("w")
    \/ Crash("w")

SpecSave == InitSave /\ [][NextSave]_vars

(***************************************************************************)
(* Properties of SpecSave.  call[t].old is the directory as save found it, *)
(* call[t].pre the service state it saves.                                 *)
(***************************************************************************)
SaveReturned(t) == Finished(t, {"save"}) /\ call[t].err = "none"

(* C2: when the process stops during a save in which no I/O call failed,   *)
(* every file under a final name holds its complete previous content or    *)
(* its complete new content.                                               *)
C2_CrashLeavesCompleteFiles ==
    \A t \in Threads :
        (pc[t] = "crashed" /\ faults = 0) =>
            \A f \in FinalNames :
                disk[call[t].dir][f].exists =>
                    disk[call[t].dir][f] \in {call[t].old[f], DirImage(call[t].pre)[f]}

(* C3: when opening, writing or flushing the temporary file of one of the  *)
(* three files fails, save reports an error and the committed file of that *)
(* name keeps the content it had before the call.                          *)
C3_FailedSaveKeepsCommitted ==
    \A t \in Threads :
        (/\ Finished(t, {"save"})
         /\ call[t].failed_file # "none"
         /\ call[t].old[call[t].failed_file].exists) =>
            /\ call[t].err # "none"
            /\ disk[call[t].dir][call[t].failed_file] = call[t].old[call[t].failed_file]

InitRoundTrip ==
    InitWith({"ss", "ss2", "ss3"}, {"w"}, [d \in {"a"} |-> EmptyDir],
             [t \in {"w"} |-> [NoBudget EXCEPT !.add = MaxAdds, !.save = MaxSaves,
                                               !.load = MaxSaves]],
             FALSE)

LoadFresh(t, s, dir) == svc[s] = EmptyService /\ LoadInvoke(t, s, dir)

NextRoundTrip ==
    \/ \E doc \in DocInputs : AddInvoke("w", "ss", doc)
    \/ \E s \in {"ss", "ss2"} : SaveInvoke("w", s, "a")
    \/ \E s \in {"ss2", "ss3"} : LoadFresh("w", s, "a")
    \/ AcquireExclusive("w")
    \/ AddIndex("w")
    \/ AddTables("w")
    \/ AddStats("w")
    \/ SaveOpen("w")
    \/ SaveWrite("w")
    \/ SaveClose("w")
    \/ SaveRemove("w")
    \/ SaveRename("w")
    \/ LoadMeta("w")
    \/ LoadDocs("w")
    \/ LoadPostings("w")

SpecRoundTrip == InitRoundTrip /\ [][NextRoundTrip]_vars

SameObservations(s1, s2) ==
    \A op \in SearchOps, q \in Queries : Observe(op, s1, q) = Observe(op, s2, q)

NonNegativeIds(s) == \A id \in DOMAIN s.doc_text_ : id >= 0

(* thread t has loaded a directory that holds a complete save              *)
LoadedSaved(t) == Finished(t, {"load"}) /\ saved[call[t].dir].valid

RECURSIVE Built(_)
Built(n) ==
    IF n = 0 THEN {EmptyService}
    ELSE Built(n - 1) \cup {add_document(s, d[1], d[2]) : s \in Built(n - 1), d \in SavedDocInputs}

InitDeterminism ==
    /\ svc \in [{"ss", "ss2"} -> Built(MaxAdds)]
    /\ mu = [s \in {"ss", "ss2"} |-> Unlocked]
    /\ disk = [d \in {"a", "b"} |-> EmptyDir]
    /\ pc = [t \in {"w"} |-> "idle"]
    /\ call = [t \in {"w"} |-> NoCall]
    /\ budget = [t \in {"w"} |-> [NoBudget EXCEPT !.save = MaxSaves]]
    /\ faults = 0
    /\ hist = [s \in {"ss", "ss2"} |-> <<>>]
    /\ saved = [d \in {"a", "b"} |-> NoSaved]
    /\ searchd = NotStarted

NextDeterminism ==
    \/ SaveInvoke("w", "ss", "a")
    \/ SaveInvoke("w", "ss2", "b")
    \/ AcquireExclusive("w")
    \/ SaveOpen("w")
    \/ SaveWrite("w")
    \/ SaveClose("w")
    \/ SaveRemove("w")
    \/ SaveRename("w")

SpecDeterminism == InitDeterminism /\ [][NextDeterminism]_vars

(* the file read back in file order                                        *)
FileIndex(file) == InvertedIndex_load(EmptyIndex, file).index

Ascending(index) ==
    /\ \A i \in 1..Len(index) - 1 : StrLess(index[i].term, index[i + 1].term)
    /\ \A i \in 1..Len(index) : \A j \in 1..Len(index[i].post) - 1 :
           index[i].post[j][1] < index[i].post[j + 1][1]

BothSaved == saved["a"].valid /\ saved["b"].valid /\ pc["w"] = "idle"

(* C10: the postings.bin of two indexes with the same term -> docId -> tf  *)
(* map are byte-identical, and a postings.bin lists its terms in ascending *)
(* byte order and each term's postings in ascending docId order.           *)
C10_DeterministicPostings ==
    /\ \A d \in DOMAIN saved :
           (saved[d].valid /\ pc["w"] = "idle") => Ascending(FileIndex(disk[d]["postings.bin"]))
    /\ (BothSaved /\ IndexContent(svc["ss"].idx_) = IndexContent(svc["ss2"].idx_))
           => disk["a"]["postings.bin"] = disk["b"]["postings.bin"]

(* both saved; the two indexes have the same content, two terms, a term    *)
(* with two postings, and hold their terms in different orders             *)
C10_Witness ==
    /\ BothSaved
    /\ IndexContent(svc["ss"].idx_) = IndexContent(svc["ss2"].idx_)
    /\ svc["ss"].idx_ # svc["ss2"].idx_
    /\ UnsortedTerms(svc["ss"].idx_) # UnsortedTerms(svc["ss2"].idx_)
    /\ Len(svc["ss"].idx_) >= 2
    /\ \E i \in 1..Len(svc["ss"].idx_) : Len(svc["ss"].idx_[i].post) >= 2

(***************************************************************************)
(* SpecLoad: one thread adds documents to ss, loads a directory and        *)
(* searches.  The directories are those of SpecDisk and further defective  *)
(* variants of the complete index: each file missing, schema versions      *)
(* other than 1, postings files that declare more than they hold.          *)
(***************************************************************************)
(* "a or b", "b c", "a OR c", "a -c": a lower-case or, an unknown term c   *)
QueryInputs ==
    Queries \cup { <<97, 32, 111, 114, 32, 98>>, <<98, 32, 99>>,
                   <<97, 32, 79, 82, 32, 99>>, <<97, 32, 45, 99>> }

(* DocInputs and 1: "", which empties a document added before            *)
LoadDocInputs == DocInputs \cup { <<1, <<>>>> }

(* index_meta.json without the schema_version member                       *)
MetaWithoutSchema(s) == SubSeq(MetaJson(s), 1, Len(MetaJson(s)) - 3) \o <<125>>

(* postings files whose declared term count, term length or posting count  *)
(* exceeds the bytes that follow                                           *)
DefectivePostings(kind) ==
    CASE kind = "p_empty" -> <<>>
      [] kind = "p_one" -> <<1>>
      [] kind = "p_terms" -> write_u64(3) \o SubSeq(GoodDir["postings.bin"].data, 9,
                                                    Len(GoodDir["postings.bin"].data))
      [] kind = "p_termlen" -> write_u64(1) \o write_u32(200) \o <<97>> \o write_u32(1)
                                   \o PostingBytes(<< <<1, 1>> >>)
      [] kind = "p_postcount" -> write_u64(1) \o write_u32(1) \o <<97>> \o write_u32(5)
                                     \o PostingBytes(<< <<1, 1>> >>)

PostingsDefects == {"p_empty", "p_one", "p_terms", "p_termlen", "p_postcount"}

MissingDirs == {"no_meta", "no_docs", "no_postings", "no_postings_badmeta"}

SchemaDirs == {"schema0", "schema2_baddocs", "no_schema"}

LoadDisk ==
    [d \in DOMAIN SpecDisk \cup PostingsDefects \cup MissingDirs \cup SchemaDirs |->
        CASE d \in DOMAIN SpecDisk -> SpecDisk[d]
          [] d \in PostingsDefects ->
                 [GoodDir EXCEPT !["postings.bin"] = File(DefectivePostings(d))]
          [] d = "no_meta" -> [GoodDir EXCEPT !["index_meta.json"] = NoFile]
          [] d = "no_docs" -> [GoodDir EXCEPT !["docs.jsonl"] = NoFile]
          [] d = "no_postings" -> [GoodDir EXCEPT !["postings.bin"] = NoFile]
          [] d = "no_postings_badmeta" ->
                 [SpecDisk["badmeta"] EXCEPT !["postings.bin"] = NoFile]
          [] d = "schema0" -> [GoodDir EXCEPT !["index_meta.json"] =
                                  File(MetaTokens(GoodState.N_, GoodState.avgdl_, 0))]
          [] d = "schema2_baddocs" ->
                 [SpecDisk["schema"] EXCEPT !["docs.jsonl"] = SpecDisk["badline"]["docs.jsonl"],
                                            !["postings.bin"] = SpecDisk["trunc"]["postings.bin"]]
          [] d = "no_schema" -> [GoodDir EXCEPT !["index_meta.json"] =
                                    File(MetaWithoutSchema(GoodState))]]

InitLoad ==
    InitWith({"ss"}, {"w"}, LoadDisk,
             [t \in {"w"} |-> [NoBudget EXCEPT !.add = MaxAdds, !.load = MaxLoads,
                                               !.search = MaxSearches]],
             TRUE)

NextLoad ==
    \/ \E doc \in LoadDocInputs : AddInvoke("w", "ss", doc)
    \/ \E dir \in DOMAIN disk : LoadInvoke("w", "ss", dir)
    \/ \E op \in SearchOps, q \in QueryInputs : SearchInvoke("w", "ss", op, q)
    \/ AcquireExclusive("w")
    \/ AcquireShared("w")
    \/ AddIndex("w")
    \/ AddTables("w")
    \/ AddStats("w")
    \/ LoadMeta("w")
    \/ LoadDocs("w")
    \/ LoadPostings("w")
    \/ SearchCandidates("w")
    \/ SearchScore("w")
    \/ SnippetStep("w")

SpecLoad == InitLoad /\ [][NextLoad]_vars

(* the service states left behind by the public operations that returned   *)
Returned(s) == {hist[s][i].st : i \in 1..Len(hist[s])}

(* C11: after every public operation returns, N is the number of entries   *)
(* of the document length table and of the document text table.            *)
C11_NCountsDocuments ==
    \A s \in DOMAIN svc : \A st \in Returned(s) :
        /\ st.N_ = Cardinality(DOMAIN st.doc_len_)
        /\ st.N_ = Cardinality(DOMAIN st.doc_text_)

(* C12: after every public operation returns, avgdl is the arithmetic mean *)
(* of the lengths in the document length table when N > 0, and 0.0 when    *)
(* N = 0.                                                                  *)
C12_AvgdlIsMean ==
    \A s \in DOMAIN svc : \A st \in Returned(s) :
        IF st.N_ > 0
        THEN /\ DOMAIN st.doc_len_ # {}
             /\ st.avgdl_[1] * Cardinality(DOMAIN st.doc_len_)
                    = SumLen(st.doc_len_, DOMAIN st.doc_len_) * st.avgdl_[2]
        ELSE st.avgdl_[1] = 0

(* the divisors of the scoring of a query in state s: df + 0.5 (as 2df+1)  *)
(* and the denominator of tf_part, for every scored document and term      *)
ScoringDivisors(s, query) ==
    LET pq   == parse_query(query)
        docs == Range(candidates(s.idx_, pq)) \cap DOMAIN s.doc_len_
        used == {x \in (1..Len(pq.terms)) \X docs : term_tf(s.idx_, pq.terms[x[1]], x[2]) > 0}
    IN  {tf_part(term_tf(s.idx_, pq.terms[x[1]], x[2]), s.doc_len_[x[2]], s.avgdl_)[2] : x \in used}
        \cup {2 * InvertedIndex_df(s.idx_, pq.terms[x[1]]) + 1 : x \in used}

AllLengthsZero(st) == \A id \in DOMAIN st.doc_len_ : st.doc_len_[id] = 0

C14_PostingsHaveLengths ==
    \A s \in DOMAIN svc : \A st \in Returned(s) :
        \A p \in IndexContent(st.idx_) : p[3] >= 1 /\ p[2] \in DOMAIN st.doc_len_


(***************************************************************************)
(* SpecHalfCommit: documents are added to ss and ss saves to the directory *)
(* "a"; an open or a rename may fail, which stops the save with the files  *)
(* committed so far; the fresh service ss2 loads the directory.            *)
(***************************************************************************)
InitHalfCommit ==
    InitWith({"ss", "ss2"}, {"w"}, [d \in {"a"} |-> EmptyDir],
             [t \in {"w"} |-> [NoBudget EXCEPT !.add = MaxAdds, !.save = MaxSaves,
                                               !.load = MaxLoads]],
             FALSE)

NextHalfCommit ==
    \/ \E doc \in SavedDocInputs : AddInvoke("w", "ss", doc)
    \/ SaveInvoke("w", "ss", "a")
    \/ LoadFresh("w", "ss2", "a")
    \/ AcquireExclusive("w")
    \/ AddIndex("w")
    \/ AddTables("w")
    \/ AddStats("w")
    \/ SaveOpen("w")
    \/ SaveOpenFails("w")
    \/ SaveWrite("w")
    \/ SaveClose("w")
    \/ SaveRemove("w")
    \/ SaveRename("w")
    \/ SaveRenameFails("w")
    \/ LoadMeta("w")
    \/ LoadDocs("w")
    \/ LoadPostings("w")

SpecHalfCommit == InitHalfCommit /\ [][NextHalfCommit]_vars

(* the three files of dir are there and each parses, but the N of the      *)
(* metadata is not the number of rows of docs.jsonl, or a posting names a  *)
(* docId that has no row in docs.jsonl                                     *)
HalfCommitted(dir) ==
    /\ \A f \in FinalNames : dir[f].exists
    /\ LET meta == ParseJson(dir["index_meta.json"].data)
           docs == load_docs(EmptyService, dir)
           post == InvertedIndex_load(EmptyIndex, dir["postings.bin"])
       IN  /\ meta.ok
           /\ docs.err = "none"
           /\ post.ok
           /\ \/ JsonGet(meta.obj, "N", 0) # Cardinality(DOMAIN docs.s.doc_text_)
              \/ \E p \in IndexContent(post.index) : p[2] \notin DOMAIN docs.s.doc_text_

(* C15: the load of a half-committed directory (a save stopped after       *)
(* committing index_meta.json and before committing docs.jsonl or          *)
(* postings.bin) fails with an error.                                      *)
C15_HalfCommitDetected ==
    \A t \in Threads :
        (/\ Finished(t, {"load"})
         /\ faults > 0
         /\ HalfCommitted(call[t].old)) => call[t].err # "none"


(* the final files that are missing in dir                                 *)
MissingFiles(dir) == {f \in FinalNames : ~dir[f].exists}

(* C16: load rejects a directory in which index_meta.json, docs.jsonl or   *)
(* postings.bin is missing: the error message names a missing file (also   *)
(* when another file would not parse: the three files are checked before   *)
(* anything is parsed) and the service state is unchanged.                 *)
C16_MissingFileRejected ==
    \A t \in Threads :
        (Finished(t, {"load"}) /\ MissingFiles(call[t].old) # {}) =>
            /\ call[t].err \in {"File does not exist: " \o f : f \in MissingFiles(call[t].old)}
            /\ svc[call[t].s] = call[t].pre

(* a populated service was given a directory without postings.bin whose    *)
(* index_meta.json does not parse, and load reported the missing file      *)
C16_Witness ==
    \E t \in Threads :
        /\ Finished(t, {"load"})
        /\ call[t].dir = "no_postings_badmeta"
        /\ ~ParseJson(call[t].old["index_meta.json"].data).ok
        /\ call[t].pre.N_ > 0
        /\ call[t].err = "File does not exist: postings.bin"

(* meta.get("schema_version", 0).asInt() of the metadata of dir            *)
SchemaOf(dir) == JsonGet(ParseJson(dir["index_meta.json"].data).obj, "schema_version", 0)

(* the three files are there and the metadata parses                       *)
MetaReadable(dir) == MissingFiles(dir) = {} /\ ParseJson(dir["index_meta.json"].data).ok

(* C17: load rejects every index_meta.json whose schema_version is not 1,  *)
(* a missing schema_version (read as 0) included, with an error that names *)
(* the value; docs.jsonl and postings.bin are not read and the service     *)
(* state is unchanged.                                                     *)
C17_SchemaRejected ==
    \A t \in Threads :
        (/\ Finished(t, {"load"})
         /\ MetaReadable(call[t].old)
         /\ SchemaOf(call[t].old) # 1) =>
            /\ call[t].err = "Unsupported schema_version: " \o ToString(SchemaOf(call[t].old))
            /\ svc[call[t].s] = call[t].pre

(* a populated service was given a directory whose metadata has no         *)
(* schema_version member, and load reported the value 0                    *)
C17_Witness ==
    \E t \in Threads :
        /\ Finished(t, {"load"})
        /\ call[t].dir = "no_schema"
        /\ MetaReadable(call[t].old)
        /\ call[t].pre.N_ > 0
        /\ call[t].err = "Unsupported schema_version: 0"

(* the same with schema_version 2 and a docs.jsonl that does not parse     *)
C17_WitnessUnreadDocs ==
    \E t \in Threads :
        /\ Finished(t, {"load"})
        /\ call[t].dir = "schema2_baddocs"
        /\ load_docs(EmptyService, call[t].old).err # "none"
        /\ call[t].err = "Unsupported schema_version: 2"


(* C18: InvertedIndex::load rejects a postings file whose declared term    *)
(* count, term length or posting count exceeds the bytes that remain (an   *)
(* empty and a 1-byte file included): it raises an error and the index in  *)
(* memory is the one it was before the call.                               *)
C18_OverdeclaredPostingsRejected ==
    /\ \A t \in Threads :
           (/\ Finished(t, {"load"})
            /\ \E kind \in PostingsDefects :
                   call[t].old["postings.bin"] = File(DefectivePostings(kind))
            /\ load_docs(load_meta(call[t].pre, call[t].old).s, call[t].old).err = "none") =>
               /\ call[t].err = "postings.bin: read error"
               /\ svc[call[t].s].idx_ = call[t].pre.idx_
    /\ \A s \in DOMAIN svc : \A kind \in PostingsDefects :
           InvertedIndex_load(svc[s].idx_, File(DefectivePostings(kind)))
               = [ok |-> FALSE, index |-> svc[s].idx_]

(* a service with a populated index was given a postings file whose        *)
(* posting count exceeds the postings that follow; load failed             *)
C18_Witness ==
    \E t \in Threads :
        /\ Finished(t, {"load"})
        /\ call[t].dir = "p_postcount"
        /\ call[t].pre.idx_ # EmptyIndex
        /\ call[t].err = "postings.bin: read error"


(* the docIds of the posting list of term, read off the index cells        *)
PostingDocs(index, term) == {p[2] : p \in {c \in IndexContent(index) : c[1] = term}}

(* the lexeme OR or or stands somewhere in the query                       *)
HasOrLexeme(query) ==
    \E p \in Range(split_parts(query, 1, <<>>, <<>>)) : p \in {<<79, 82>>, <<111, 114>>}

(* the set the positive terms select: the union of their posting lists     *)
(* with OR, the intersection without                                       *)
Selected(index, terms, any) ==
    IF terms = <<>> THEN {}
    ELSE IF any THEN UNION {PostingDocs(index, terms[k]) : k \in 1..Len(terms)}
    ELSE {d \in PostingDocs(index, terms[1]) :
              \A k \in 1..Len(terms) : d \in PostingDocs(index, terms[k])}

(* C19: the candidates of a query (before NOT exclusion) are the           *)
(* intersection of the posting lists of its positive terms when the query  *)
(* has no OR, and their union when the lexeme OR or or stands anywhere in  *)
(* it; an unknown term contributes the empty list.  The list is ascending  *)
(* without duplicates.                                                     *)
C19_CandidatesAreIntersectionOrUnion ==
    \A t \in Threads :
        pc[t] = "search_score" =>
            LET cand == call[t].cand
                pq   == parse_query(call[t].query)
            IN  /\ Range(cand) = Selected(svc[call[t].s].idx_, pq.terms,
                                          HasOrLexeme(call[t].query))
                /\ \A i \in 1..Len(cand) - 1 : cand[i] < cand[i + 1]

(* two documents are indexed and the candidates of "b a" are the one       *)
(* document that holds both terms                                          *)
C19_Witness ==
    \E t \in Threads :
        /\ pc[t] = "search_score"
        /\ call[t].query = <<98, 32, 97>>
        /\ PostingDocs(svc[call[t].s].idx_, <<98>>) = {1, 2}
        /\ call[t].cand = <<2>>

(* "a or b" selects the union, and the unknown term c leaves "a OR c"      *)
(* with the posting list of a and "b c" with nothing                       *)
C19_WitnessUnion ==
    \E t \in Threads :
        /\ pc[t] = "search_score"
        /\ PostingDocs(svc[call[t].s].idx_, <<98>>) = {1, 2}
        /\ PostingDocs(svc[call[t].s].idx_, <<97>>) = {2}
        /\ \/ call[t].query = <<97, 32, 111, 114, 32, 98>> /\ call[t].cand = <<1, 2>>
           \/ call[t].query = <<97, 32, 79, 82, 32, 99>> /\ call[t].cand = <<2>>
           \/ call[t].query = <<98, 32, 99>> /\ call[t].cand = <<>>


(* the docIds in the posting list of at least one NOT term                 *)
NotDocs(index, pq) ==
    UNION {PostingDocs(index, pq.not_terms[k]) : k \in 1..Len(pq.not_terms)}

(* C20: a candidate docId is dropped from the result if and only if it is  *)
(* in the posting list of at least one NOT term; NOT terms add no          *)
(* document.                                                               *)
C20_DroppedIffExcluded ==
    \A t \in Threads :
        Finished(t, {"search"}) =>
            LET pq == parse_query(call[t].query)
            IN  /\ Range(call[t].result) \subseteq Range(call[t].cand)
                /\ \A d \in Range(call[t].cand) :
                       d \notin Range(call[t].result)
                           <=> d \in NotDocs(svc[call[t].s].idx_, pq)


(***************************************************************************)
(* SpecQuery: one thread searches a service that holds one of the corpora  *)
(* of the tests and the scenarios, after adding at most MaxAdds documents  *)
(* to it.                                                                  *)
(***************************************************************************)
(* test_ranking.cpp: 1:"apple banana apple", 2:"banana cherry banana       *)
(* banana", 3:"cherry date cherry cherry cherry"                           *)
S1Docs ==
    << <<1, <<97, 112, 112, 108, 101, 32, 98, 97, 110, 97, 110, 97, 32,
             97, 112, 112, 108, 101>>>>,
       <<2, <<98, 97, 110, 97, 110, 97, 32, 99, 104, 101, 114, 114, 121,
             32, 98, 97, 110, 97, 110, 97, 32, 98, 97, 110, 97, 110, 97>>>>,
       <<3, <<99, 104, 101, 114, 114, 121, 32, 100, 97, 116, 101, 32, 99,
             104, 101, 114, 114, 121, 32, 99, 104, 101, 114, 114, 121, 32,
             99, 104, 101, 114, 114, 121>>>> >>

(* test_bm25.cpp: 1:"hello filler (x10) world", 2:"hello world"            *)
S4Docs ==
    << <<1, <<104, 101, 108, 108, 111, 32, 102, 105, 108, 108, 101, 114,
             32, 102, 105, 108, 108, 101, 114, 32, 102, 105, 108, 108,
             101, 114, 32, 102, 105, 108, 108, 101, 114, 32, 102, 105,
             108, 108, 101, 114, 32, 102, 105, 108, 108, 101, 114, 32,
             102, 105, 108, 108, 101, 114, 32, 102, 105, 108, 108, 101,
             114, 32, 102, 105, 108, 108, 101, 114, 32, 102, 105, 108,
             108, 101, 114, 32, 119, 111, 114, 108, 100>>>>,
       <<2, <<104, 101, 108, 108, 111, 32, 119, 111, 114, 108, 100>>>> >>

(* 2:"a b", 1:"b a", 3:"a a c": documents 1 and 2 score alike for a, b     *)
TieDocs ==
    << <<2, <<97, 32, 98>>>>,
       <<1, <<98, 32, 97>>>>,
       <<3, <<97, 32, 97, 32, 99>>>> >>

(* the service after add_document of each document of docs, in order       *)
RECURSIVE BuildCorpus(_, _)
BuildCorpus(s, docs) ==
    IF docs = <<>> THEN s
    ELSE BuildCorpus(add_document(s, Head(docs)[1], Head(docs)[2]), Tail(docs))

Corpora ==
    { EmptyService, GoodState, BuildCorpus(EmptyService, S1Docs),
      BuildCorpus(EmptyService, S4Docs), BuildCorpus(EmptyService, TieDocs) }

(* queries without a positive term: "", "  ", "OR", "-", "!?", "or -a",    *)
(* "-a"                                                                   *)
NoPositiveQueries ==
    { <<>>, <<32, 32>>, <<79, 82>>, <<45>>, <<33, 63>>, <<111, 114, 32,
      45, 97>>, <<45, 97>> }

(* "banana", "hello world", "b", "a b", "cherry OR apple", "a a"          *)
ScenarioQueries ==
    { <<98, 97, 110, 97, 110, 97>>,
      <<104, 101, 108, 108, 111, 32, 119, 111, 114, 108, 100>>,
      <<98>>,
      <<97, 32, 98>>,
      <<99, 104, 101, 114, 114, 121, 32, 79, 82, 32, 97, 112, 112, 108,
      101>>,
      <<97, 32, 97>> }

SearchInputs == QueryInputs \cup NoPositiveQueries \cup ScenarioQueries

InitQuery ==
    /\ svc \in [{"ss"} -> Corpora]
    /\ mu = [s \in {"ss"} |-> Unlocked]
    /\ disk = [d \in {} |-> EmptyDir]
    /\ pc = [t \in {"w"} |-> "idle"]
    /\ call = [t \in {"w"} |-> NoCall]
    /\ budget = [t \in {"w"} |-> [NoBudget EXCEPT !.add = MaxAdds, !.search = MaxSearches]]
    /\ faults = 0
    /\ hist = [s \in {"ss"} |-> <<>>]
    /\ saved = [d \in {} |-> NoSaved]
    /\ searchd = NotStarted

NextQuery ==
    \/ \E doc \in LoadDocInputs : AddInvoke("w", "ss", doc)
    \/ \E op \in SearchOps, q \in SearchInputs : SearchInvoke("w", "ss", op, q)
    \/ AcquireExclusive("w")
    \/ AcquireShared("w")
    \/ AddIndex("w")
    \/ AddTables("w")
    \/ AddStats("w")
    \/ SearchCandidates("w")
    \/ SearchScore("w")
    \/ SnippetStep("w")

SpecQuery == InitQuery /\ [][NextQuery]_vars

(* C21: a query whose positive term list is empty after parsing (empty,    *)
(* only spaces, only NOT terms, only OR, only lexemes without a token)     *)
(* returns an empty result from search, search_scored and                  *)
(* search_with_snippets, without an error, whatever the corpus.            *)
C21_NoPositiveTermsNoResult ==
    /\ \A q \in NoPositiveQueries : parse_query(q).terms = <<>>
    /\ \A t \in Threads :
           (Finished(t, SearchOps) /\ parse_query(call[t].query).terms = <<>>) =>
               call[t].result = <<>> /\ call[t].err = "none"
    /\ \A s \in DOMAIN svc : \A op \in SearchOps, q \in NoPositiveQueries :
           Observe(op, svc[s], q) = <<>>

(* search_with_snippets("or -a") has returned from a service in which a    *)
(* document holds a                                                        *)
C21_Witness ==
    \E t \in Threads :
        /\ Finished(t, {"search_with_snippets"})
        /\ call[t].query = <<111, 114, 32, 45, 97>>
        /\ InvertedIndex_df(svc[call[t].s].idx_, <<97>>) > 0
        /\ call[t].result = <<>>


(* the docIds of a list of hits, in order                                  *)
DocIdsOf(hits) == [k \in 1..Len(hits) |-> hits[k][1]]

(* each docId once, scores non-increasing, equal scores by ascending docId *)
Ranked(r) ==
    /\ \A i, j \in 1..Len(r) : i # j => r[i][1] # r[j][1]
    /\ \A i \in 1..Len(r) - 1 :
           /\ r[i][2] >= r[i + 1][2]
           /\ r[i][2] = r[i + 1][2] => r[i][1] < r[i + 1][1]

(* C22: the list search_scored returns holds each docId at most once, its  *)
(* scores are non-increasing and results of equal score stand in ascending *)
(* docId order; search and search_with_snippets return the same docIds in  *)
(* the same order.                                                         *)
C22_ResultOrdering ==
    \A t \in Threads :
        /\ Finished(t, {"search_scored"}) => Ranked(call[t].result)
        /\ Finished(t, {"search"}) =>
               call[t].result = DocIdsOf(search_scored(svc[call[t].s], call[t].query))
        /\ Finished(t, {"search_with_snippets"}) =>
               /\ DocIdsOf(call[t].result) = search(svc[call[t].s], call[t].query)
               /\ Ranked(call[t].result)

(* search_scored has returned three hits or more, two of them with the     *)
(* same score and two with different scores                                *)
C22_Witness ==
    \E t \in Threads :
        /\ Finished(t, {"search_scored"})
        /\ Len(call[t].result) >= 3
        /\ \E i \in 1..Len(call[t].result) - 1 : call[t].result[i][2] = call[t].result[i + 1][2]
        /\ \E i \in 1..Len(call[t].result) - 1 : call[t].result[i][2] > call[t].result[i + 1][2]


(* C23 (scenario S1): with the documents 1:"apple banana apple",           *)
(* 2:"banana cherry banana banana", 3:"cherry date cherry cherry cherry",  *)
(* search("banana") returns [1, 2].                                        *)
C23_S1BananaRanking ==
    \A t \in Threads :
        (/\ Finished(t, {"search"})
         /\ svc[call[t].s] = BuildCorpus(EmptyService, S1Docs)
         /\ call[t].query = <<98, 97, 110, 97, 110, 97>>) =>
            call[t].result = <<1, 2>>


(* N > 0, avgdl > 0 and df <= N for every term of the index                *)
ConsistentCorpus(s) ==
    /\ s.N_ > 0
    /\ s.avgdl_[1] > 0
    /\ \A term \in IndexTerms(s.idx_) : InvertedIndex_df(s.idx_, term) <= s.N_

(* documents a and b have the same term frequency for every positive term  *)
SameTf(s, terms, a, b) ==
    \A k \in 1..Len(terms) : term_tf(s.idx_, terms[k], a) = term_tf(s.idx_, terms[k], b)

(* C24: in a consistent corpus (N > 0, avgdl > 0, df <= N), of two hits    *)
(* with the same term frequency for every positive query term the one     *)
(* with the smaller token length has the strictly higher score and stands  *)
(* first.                                                                  *)
C24_ShorterRanksFirst ==
    \A t \in Threads :
        (Finished(t, {"search_scored"}) /\ ConsistentCorpus(svc[call[t].s])) =>
            LET s  == svc[call[t].s]
                r  == call[t].result
                pq == parse_query(call[t].query)
            IN  \A i, j \in 1..Len(r) :
                    (/\ SameTf(s, pq.terms, r[i][1], r[j][1])
                     /\ s.doc_len_[r[i][1]] < s.doc_len_[r[j][1]]) =>
                        r[i][2] > r[j][2] /\ i < j

(* test_bm25.cpp: "hello world" (2 tokens) stands before the 12-token      *)
(* document for the query "hello world"                                    *)
C24_Witness ==
    \E t \in Threads :
        /\ Finished(t, {"search_scored"})
        /\ svc[call[t].s] = BuildCorpus(EmptyService, S4Docs)
        /\ call[t].query = <<104, 101, 108, 108, 111, 32, 119, 111, 114, 108, 100>>
        /\ DocIdsOf(call[t].result) = <<2, 1>>
        /\ SameTf(svc[call[t].s], parse_query(call[t].query).terms, 1, 2)


(***************************************************************************)
(* SpecReaders: the reader threads r1 and r2 search one service while the  *)
(* writer w adds documents to it.                                          *)
(***************************************************************************)
ReaderQueries == { <<97>>, <<97, 32, 79, 82, 32, 98>>, <<97, 32, 45, 98>> }

InitReaders ==
    InitWith({"ss"}, {"w", "r1", "r2"}, [d \in {} |-> EmptyDir],
             [t \in {"w", "r1", "r2"} |->
                 IF t = "w" THEN [NoBudget EXCEPT !.add = MaxAdds]
                 ELSE [NoBudget EXCEPT !.search = MaxSearches]],
             TRUE)

NextReaders ==
    \/ \E doc \in SavedDocInputs : AddInvoke("w", "ss", doc)
    \/ \E t \in {"r1", "r2"}, op \in SearchOps, q \in ReaderQueries :
           SearchInvoke(t, "ss", op, q)
    \/ \E t \in Threads : AcquireExclusive(t)
    \/ \E t \in Threads : AcquireShared(t)
    \/ \E t \in Threads : AddIndex(t)
    \/ \E t \in Threads : AddTables(t)
    \/ \E t \in Threads : AddStats(t)
    \/ \E t \in Threads : SearchCandidates(t)
    \/ \E t \in Threads : SearchScore(t)
    \/ \E t \in Threads : SnippetStep(t)

SpecReaders == InitReaders /\ [][NextReaders]_vars

(* the call of t has returned and no writer held the lock of its service   *)
(* between its start and now: the state was fixed                          *)
SearchedFixedState(t) ==
    /\ Finished(t, SearchOps)
    /\ Len(hist[call[t].s]) = call[t].start
    /\ mu[call[t].s].writer = "none"

(* C25: search calls that run concurrently against a fixed service state   *)
(* (no writer active) each return the result of the single-threaded search *)
(* on that state; two searches issued after the same write return the same *)
(* result; a reader is not blocked by other readers.                       *)
C25_ConcurrentSearches ==
    /\ \A t \in Threads :
           SearchedFixedState(t) =>
               call[t].result = Observe(call[t].op, hist[call[t].s][call[t].start].st,
                                        call[t].query)
    /\ \A t, u \in Threads :
           (/\ SearchedFixedState(t) /\ SearchedFixedState(u)
            /\ call[t].op = call[u].op /\ call[t].query = call[u].query
            /\ call[t].start = call[u].start) => call[t].result = call[u].result
    /\ \A t \in Threads :
           (pc[t] = "lock_shared" /\ mu[call[t].s].writer = "none") => ENABLED AcquireShared(t)

(* r1 and r2 hold the shared lock together, r1 with its candidates found,  *)
(* after a write                                                           *)
C25_Witness ==
    /\ mu["ss"].readers = {"r1", "r2"}
    /\ pc["r1"] = "search_score"
    /\ call["r1"].cand # <<>>
    /\ call["r1"].start = call["r2"].start
    /\ call["r1"].start > 1

(* both have returned the same hits from the same fixed state              *)
C25_WitnessReturned ==
    /\ SearchedFixedState("r1") /\ SearchedFixedState("r2")
    /\ call["r1"].op = call["r2"].op /\ call["r1"].query = call["r2"].query
    /\ call["r1"].result # <<>>
    /\ call["r1"].result = call["r2"].result


(***************************************************************************)
(* SpecParse: search is called with every query of at most MaxQueryLen     *)
(* bytes over the bytes a, O, R, o, r, '-' and ' '.                        *)
(***************************************************************************)
MaxQueryLen == 4

QueryBytes == {97, 79, 82, 111, 114, 45, 32}

ParseInputs == UNION { [1..n -> QueryBytes] : n \in 0..MaxQueryLen }

InitParse ==
    /\ svc = [s \in {"ss"} |-> GoodState]
    /\ mu = [s \in {"ss"} |-> Unlocked]
    /\ disk = [d \in {} |-> EmptyDir]
    /\ pc = [t \in {"w"} |-> "idle"]
    /\ call = [t \in {"w"} |-> NoCall]
    /\ budget = [t \in {"w"} |-> [NoBudget EXCEPT !.search = MaxSearches]]
    /\ faults = 0
    /\ hist = [s \in {"ss"} |-> <<>>]
    /\ saved = [d \in {} |-> NoSaved]
    /\ searchd = NotStarted

NextParse ==
    \/ \E q \in ParseInputs : SearchInvoke("w", "ss", "search", q)
    \/ AcquireShared("w")
    \/ SearchCandidates("w")
    \/ SearchScore("w")

SpecParse == InitParse /\ [][NextParse]_vars

(* the lexemes of q: its maximal runs of bytes other than ' ', in order    *)
LexemeStarts(q) == {i \in 1..Len(q) : q[i] # 32 /\ (i = 1 \/ q[i - 1] = 32)}

LexemeAt(q, i) ==
    LET j == CHOOSE e \in i..Len(q) :
                 /\ \A x \in i..e : q[x] # 32
                 /\ e = Len(q) \/ q[e + 1] = 32
    IN  SubSeq(q, i, j)

Lexemes(q) ==
    LET starts == SetToSortedSeq(LexemeStarts(q))
    IN  [k \in 1..Len(starts) |-> LexemeAt(q, starts[k])]

IsOr(l) == l \in {<<79, 82>>, <<111, 114>>}

IsNot(l) == ~IsOr(l) /\ l[1] = 45

IsPositive(l) == ~IsOr(l) /\ l[1] # 45

(* the tokens the lexemes give to the list ("positive" or "not"), in order *)
RECURSIVE TokensOf(_, _)
TokensOf(lexemes, list) ==
    IF lexemes = <<>> THEN <<>>
    ELSE LET l == Head(lexemes)
         IN  (IF list = "not" /\ IsNot(l) THEN tokenize(Tail(l))
              ELSE IF list = "positive" /\ IsPositive(l) THEN tokenize(l)
              ELSE <<>>) \o TokensOf(Tail(lexemes), list)

(* the classification as the claim words it                                *)
Classified(q) ==
    [terms     |-> TokensOf(Lexemes(q), "positive"),
     not_terms |-> TokensOf(Lexemes(q), "not"),
     is_or     |-> \E k \in 1..Len(Lexemes(q)) : IsOr(Lexemes(q)[k])]

(* C26: parse_query classifies each space-separated lexeme: OR and or      *)
(* (no other casing) set is_or and are discarded; a lexeme that starts     *)
(* with '-' gives the tokens of its suffix to the NOT list (a bare '-'     *)
(* gives none); every other lexeme gives its tokens to the positive list;  *)
(* runs of spaces give no empty lexeme; each list keeps the order of the   *)
(* query and its duplicates.                                               *)
C26_ParseQueryClassifies ==
    \A t \in Threads :
        pc[t] = "search_score" => parse_query(call[t].query) = Classified(call[t].query)

(* "Or a" has been parsed: Or is a positive term and is_or is not set      *)
C26_Witness ==
    \E t \in Threads :
        /\ pc[t] = "search_score"
        /\ call[t].query = <<79, 114, 32, 97>>
        /\ parse_query(call[t].query)
               = [terms |-> << <<111, 114>>, <<97>> >>, not_terms |-> <<>>, is_or |-> FALSE]

(* "a  a" keeps the duplicate and has no empty lexeme; "- -a" has one NOT  *)
(* term                                                                    *)
C26_WitnessDuplicates ==
    \E t \in Threads :
        /\ pc[t] = "search_score"
        /\ \/ /\ call[t].query = <<97, 32, 32, 97>>
              /\ parse_query(call[t].query).terms = << <<97>>, <<97>> >>
           \/ /\ call[t].query = <<45, 32, 45, 97>>
              /\ parse_query(call[t].query).not_terms = << <<97>> >>


(***************************************************************************)
(* SpecSnippet: documents of up to 200 bytes are stored under docId 1 (the *)
(* later one replaces the text of the earlier), then search_with_snippets  *)
(* is called.                                                              *)
(***************************************************************************)
(* n bytes '.', with 'A' at offset pa and 'b' at offset pb (0-based; an    *)
(* offset outside the text marks nothing)                                  *)
TextWith(n, pa, pb) ==
    [i \in 1..n |-> IF i - 1 = pa THEN 65 ELSE IF i - 1 = pb THEN 98 ELSE 46]

SnippetTexts ==
    { TextWith(x[1], x[2], x[3]) :
        x \in { <<0, -1, -1>>, <<5, 2, -1>>, <<119, 118, -1>>, <<120, 40, -1>>,
                <<121, 41, -1>>, <<200, 0, -1>>, <<200, 150, -1>>, <<200, 199, -1>>,
                <<200, 100, 50>>, <<200, 60, 190>>, <<200, -1, -1>>, <<130, -1, 125>> } }

SnippetQueries == { <<97>>, <<98, 32, 97>>, <<97, 32, 79, 82, 32, 98>> }

InitSnippet ==
    InitWith({"ss"}, {"w"}, [d \in {} |-> EmptyDir],
             [t \in {"w"} |-> [NoBudget EXCEPT !.add = MaxAdds, !.search = MaxSearches]],
             FALSE)

NextSnippet ==
    \/ \E text \in SnippetTexts : AddInvoke("w", "ss", <<1, text>>)
    \/ \E q \in SnippetQueries : SearchInvoke("w", "ss", "search_with_snippets", q)
    \/ AcquireExclusive("w")
    \/ AcquireShared("w")
    \/ AddIndex("w")
    \/ AddTables("w")
    \/ AddStats("w")
    \/ SearchCandidates("w")
    \/ SearchScore("w")
    \/ SnippetStep("w")

SpecSnippet == InitSnippet /\ [][NextSnippet]_vars

(* the offsets at which some term occurs in the lowercased text            *)
Occurrences(text, terms) ==
    {p \in 0..(Len(text) - 1) :
        \E k \in 1..Len(terms) :
            /\ p + Len(terms[k]) <= Len(text)
            /\ [i \in 1..Len(terms[k]) |-> tolower(text[p + i])] = terms[k]}

(* the slice the claim describes                                           *)
SnippetAsStated(text, snippet, terms) ==
    LET occ == Occurrences(text, terms)
    IN  /\ Len(snippet) <= 120
        /\ IF occ = {}
           THEN snippet = SubSeq(text, 1, Min(120, Len(text)))
           ELSE LET p     == CHOOSE x \in occ : \A y \in occ : x <= y
                    start == Max(0, p - 120 \div 3)
                    end   == Min(start + 120, Len(text))
                IN  /\ snippet = SubSeq(text, start + 1, end)
                    /\ start <= p /\ p < end

(* C27: make_snippet returns a contiguous slice of the case-preserved text *)
(* of at most W = 120 bytes: with p the earliest offset at which a query   *)
(* term occurs in the lowercased text, the slice runs from max(0, p - W/3) *)
(* to min(start + W, len) and contains offset p; when no term occurs it is *)
(* the first min(W, len) bytes.                                            *)
C27_SnippetWindow ==
    \A t \in Threads :
        Finished(t, {"search_with_snippets"}) =>
            \A k \in 1..Len(call[t].result) :
                SnippetAsStated(doc_text_of(svc[call[t].s], call[t].result[k][1]),
                                call[t].result[k][3],
                                parse_query(call[t].query).terms)

(* a snippet of 120 bytes that starts inside a 200-byte text and holds the *)
(* 'A' the query term a matched                                            *)
C27_Witness ==
    \E t \in Threads :
        /\ Finished(t, {"search_with_snippets"})
        /\ Len(call[t].result) = 1
        /\ Len(doc_text_of(svc[call[t].s], 1)) = 200
        /\ Len(call[t].result[1][3]) = 120
        /\ call[t].result[1][3] # SubSeq(doc_text_of(svc[call[t].s], 1), 1, 120)
        /\ 65 \in Range(call[t].result[1][3])

(* no term occurs in the text (the document was replaced): the first 120   *)
(* bytes                                                                   *)
C27_WitnessFallback ==
    \E t \in Threads :
        /\ Finished(t, {"search_with_snippets"})
        /\ Len(call[t].result) = 1
        /\ Occurrences(doc_text_of(svc[call[t].s], 1), parse_query(call[t].query).terms) = {}
        /\ Len(call[t].result[1][3]) = 120


(***************************************************************************)
(* searchd, the command-line program of src/apps/searchd/main.cpp.         *)
(* The variable searchd is the process:                                    *)
(*   stage     where main() stands: args, index, check_index, load,        *)
(*             signals, port_check, message, run, serving, exited          *)
(*   argv      argv[1..argc-1]; port the validated port                    *)
(*   fs        the directories of the file system the process sees        *)
(*   out, err  the lines written to stdout and stderr                      *)
(*   exit      the exit code, -1 while the process runs                    *)
(*   failed    the stage that ended the run with an error                  *)
(*   load_err  "not_run", or what s.load(in_dir) threw ("none": nothing)   *)
(*   s         the SearchService of main()                                 *)
(*   handlers  signal_handler is installed for SIGINT and SIGTERM          *)
(*   binds     the bind() calls made, the test socket's and the listener's *)
(*   g_*       the three atomics of lines 22-27                            *)
(*   handling  signal_handler activations between their compare-exchange   *)
(*             and their call of quit()                                    *)
(*   quit_calls, loop_quit  calls of drogon::app().quit(), and whether the *)
(*             event loop has been told to stop                            *)
(*   sigs      history: the signals delivered so far                       *)
(*   reqs      the HTTP requests received, each with its response once the *)
(*             handler has run                                             *)
(***************************************************************************)
MaxSignals == 3

isspace(ch) == ch \in (9..13) \cup {32}

isdigit(ch) == ch \in 48..57

(* the digits of std::stoi; -1 when the value leaves the range of int      *)
RECURSIVE stoi_digits(_, _, _)
stoi_digits(str, i, acc) ==
    IF i > Len(str) \/ ~isdigit(str[i]) THEN acc
    ELSE IF acc > 214748364 \/ (acc = 214748364 /\ str[i] - 48 > 7) THEN -1
    ELSE stoi_digits(str, i + 1, acc * 10 + str[i] - 48)

(* std::stoi: leading white space, an optional sign, then digits; what     *)
(* follows the digits is ignored; ok = FALSE where stoi throws             *)
stoi(str) ==
    LET spaces == {i \in 1..Len(str) : \A j \in 1..i : isspace(str[j])}
        b      == Cardinality(spaces) + 1
        signed == b <= Len(str) /\ str[b] \in {43, 45}
        d      == IF signed THEN b + 1 ELSE b
        mag    == stoi_digits(str, d, 0)
    IN  IF d > Len(str) \/ ~isdigit(str[d]) \/ mag = -1 THEN [ok |-> FALSE, value |-> 0]
        ELSE [ok |-> TRUE, value |-> IF signed /\ str[b] = 45 THEN 0 - mag ELSE mag]

(* the bytes of the --port values given below                              *)
PortBytes ==
    [p \in {"8900", "0", "65536", "80x", "abc", "", "-1", " 7"} |->
        CASE p = "8900"  -> <<56, 57, 48, 48>>
          [] p = "0"     -> <<48>>
          [] p = "65536" -> <<54, 53, 53, 51, 54>>
          [] p = "80x"   -> <<56, 48, 120>>
          [] p = "abc"   -> <<97, 98, 99>>
          [] p = ""      -> <<>>
          [] p = "-1"    -> <<45, 49>>
          [] p = " 7"    -> <<32, 55>>]

(* lines 61-67 *)
has_flag(argv, flag) == \E i \in 1..Len(argv) : argv[i] = flag

(* lines 69-75: the argument after the first occurrence of key *)
get_arg_value(argv, key) ==
    LET at == {i \in 1..(Len(argv) - 1) : argv[i] = key}
    IN  IF at = {} THEN "" ELSE argv[(CHOOSE i \in at : \A j \in at : i <= j) + 1]

(* std::cerr << line; return code *)
Fail(p, code, line) ==
    [p EXCEPT !.stage = "exited", !.exit = code, !.failed = p.stage, !.err = Append(@, line)]

(* std::cout << line; return 0 *)
Succeed(p, line) == [p EXCEPT !.stage = "exited", !.exit = 0, !.out = Append(@, line)]

(* the index directories --in may name; any other path does not exist      *)
ServeDisk ==
    [d \in {"good", "schema", "badline", "trunc", "no_meta", "no_docs", "no_postings"} |->
        LoadDisk[d]]

(* lines 130-179, 216-237 and 258-286: every check made on the arguments   *)
main_args(p) ==
    LET argv       == p.argv
        index_mode == has_flag(argv, "--index")
        serve_mode == has_flag(argv, "--serve")
        port_str   == get_arg_value(argv, "--port")
        port_num   == stoi(PortBytes[port_str])
    IN  IF argv = <<>> \/ has_flag(argv, "--help") THEN Succeed(p, "Usage:")
        ELSE IF index_mode /\ serve_mode
             THEN Fail(p, 2, "Error: --index and --serve cannot be used together")
        ELSE IF index_mode /\ has_flag(argv, "--in")
             THEN Fail(p, 2, "Error: --in cannot be used with --index mode")
        ELSE IF index_mode /\ has_flag(argv, "--port")
             THEN Fail(p, 2, "Error: --port cannot be used with --index mode")
        ELSE IF serve_mode /\ has_flag(argv, "--docs")
             THEN Fail(p, 2, "Error: --docs cannot be used with --serve mode")
        ELSE IF serve_mode /\ has_flag(argv, "--out")
             THEN Fail(p, 2, "Error: --out cannot be used with --serve mode")
        ELSE IF ~index_mode /\ ~serve_mode
             THEN Fail(p, 2, "Error: Missing required mode flag (--index or --serve)")
        ELSE IF index_mode
             THEN IF get_arg_value(argv, "--out") = ""
                  THEN Fail(p, 2, "Error: --out <index_dir> is required when using --index mode")
                  ELSE IF ~has_flag(argv, "--docs")
                  THEN Fail(p, 2, "Error: --docs <path> is required when using --index mode")
                  ELSE [p EXCEPT !.stage = "index"]
        ELSE IF get_arg_value(argv, "--in") = ""
             THEN Fail(p, 2, "Error: --in <index_dir> is required when using --serve mode")
        ELSE IF ~has_flag(argv, "--port")
             THEN Fail(p, 2, "Error: --port <port> is required when using --serve mode")
        ELSE IF ~port_num.ok \/ port_num.value < 1 \/ port_num.value > 65535
             THEN Fail(p, 2, "Error: Invalid port number: " \o port_str)
        ELSE [p EXCEPT !.stage = "check_index", !.port = port_num.value]

(* lines 290-316: the directory and its three files must exist             *)
main_check_index(p) ==
    LET in_dir == get_arg_value(p.argv, "--in")
        absent == {f \in {"index_meta.json", "docs.jsonl", "postings.bin"} :
                      ~p.fs[in_dir][f].exists}
    IN  IF in_dir \notin DOMAIN p.fs
        THEN Fail(p, 3, "Error: Index directory not found: " \o in_dir)
        ELSE IF "index_meta.json" \in absent
        THEN Fail(p, 3, "Error: Index file not found: " \o in_dir \o "/index_meta.json")
        ELSE IF "docs.jsonl" \in absent
        THEN Fail(p, 3, "Error: Index file not found: " \o in_dir \o "/docs.jsonl")
        ELSE IF "postings.bin" \in absent
        THEN Fail(p, 3, "Error: Index file not found: " \o in_dir \o "/postings.bin")
        ELSE [p EXCEPT !.stage = "load"]

(* a load that is taken to have succeeded whatever it reported             *)
load_never_throws(r) == FALSE

(* line 322: the catch clause is entered when s.load threw                 *)
load_threw(r) == r.err # "none"

(* lines 318-328 *)
main_load(p) ==
    LET r == load(p.s, p.fs[get_arg_value(p.argv, "--in")])
    IN  IF load_threw(r)
        THEN [Fail(p, 3, "Error loading index: " \o r.err) EXCEPT !.s = r.s, !.load_err = r.err]
        ELSE [p EXCEPT !.stage = "signals", !.s = r.s, !.load_err = r.err]

StartupMessage(p) ==
    "Server started on port " \o ToString(p.port) \o " using index: "
        \o get_arg_value(p.argv, "--in")

(* an exchange that succeeds whatever the flag holds                       *)
always_exchanges(flag, expected) == TRUE

(* line 34: std::atomic<bool>::compare_exchange_strong succeeds when the   *)
(* flag holds the expected value                                           *)
compare_exchange_strong(flag, expected) == flag = expected

SignalNumber == [sig \in {"SIGINT", "SIGTERM"} |-> IF sig = "SIGINT" THEN 2 ELSE 15]

Alive == searchd.stage \notin {"not_started", "exited"}

OldVars == <<svc, mu, disk, pc, call, budget, faults, hist, saved>>

(* lines 121-286 *)
ParseArgs ==
    /\ searchd.stage = "args"
    /\ searchd' = main_args(searchd)
    /\ UNCHANGED OldVars

(* lines 238-251: load_docs_from_json and save either both succeed or one  *)
(* of them throws                                                          *)
IndexMode ==
    /\ searchd.stage = "index"
    /\ \E ok \in BOOLEAN :
          searchd' = IF ok THEN Succeed(searchd, "Indexing completed. Index saved to: "
                                                     \o get_arg_value(searchd.argv, "--out"))
                     ELSE Fail(searchd, 3, "Error indexing/saving: ")
    /\ UNCHANGED OldVars

CheckIndex ==
    /\ searchd.stage = "check_index"
    /\ searchd' = main_check_index(searchd)
    /\ UNCHANGED OldVars

LoadIndex ==
    /\ searchd.stage = "load"
    /\ searchd' = main_load(searchd)
    /\ UNCHANGED OldVars

(* lines 338-339 *)
RegisterSignals ==
    /\ searchd.stage = "signals"
    /\ searchd' = [searchd EXCEPT !.handlers = TRUE, !.stage = "port_check"]
    /\ UNCHANGED OldVars

(* lines 415-439: socket(), and only if that gave a descriptor, bind() on  *)
(* it and close()                                                          *)
PortCheck ==
    /\ searchd.stage = "port_check"
    /\ \E sock_ok \in BOOLEAN, bind_ok \in BOOLEAN :
          searchd' =
              IF ~sock_ok THEN [searchd EXCEPT !.stage = "message"]
              ELSE LET p == [searchd EXCEPT !.binds = Append(@, [socket |-> "test_sock",
                                                                   ok |-> bind_ok,
                                                                   open |-> FALSE])]
                   IN  IF ~bind_ok
                       THEN Fail(p, 3, "Error: Failed to bind to port " \o ToString(p.port))
                       ELSE [p EXCEPT !.stage = "message"]
    /\ UNCHANGED OldVars

(* lines 445-447 *)
WriteStartupMessage ==
    /\ searchd.stage = "message"
    /\ searchd' = [searchd EXCEPT !.out = Append(@, StartupMessage(searchd)), !.stage = "run"]
    /\ UNCHANGED OldVars

(* lines 464-469 and 474-485: addListener and run(); the listener is bound *)
(* inside run(), which then calls the beginning advice of lines 457-461,   *)
(* or throws                                                               *)
Run ==
    /\ searchd.stage = "run"
    /\ \E bind_ok \in BOOLEAN :
          LET p == [searchd EXCEPT !.binds = Append(@, [socket |-> "listener", ok |-> bind_ok,
                                                         open |-> bind_ok])]
          IN  searchd' =
                  IF bind_ok THEN [p EXCEPT !.stage = "serving", !.g_server_ready = TRUE]
                  ELSE Fail(p, 3, "Error: Failed to bind to port " \o ToString(p.port))
    /\ UNCHANGED OldVars

(* a SIGINT or SIGTERM reaches the process.  Before line 338 the default   *)
(* action ends it; afterwards signal_handler runs, here up to its          *)
(* compare_exchange_strong (lines 30-34)                                   *)
Signal(sig) ==
    /\ Alive
    /\ Len(searchd.sigs) < MaxSignals
    /\ LET won == /\ searchd.handlers
                  /\ compare_exchange_strong(searchd.g_shutdown_in_progress, FALSE)
           p   == [searchd EXCEPT !.sigs = Append(@, [sig |-> sig, at |-> searchd.stage,
                                                       handled |-> searchd.handlers,
                                                       won |-> won])]
       IN  searchd' =
               IF ~searchd.handlers
               THEN [p EXCEPT !.stage = "exited", !.exit = 128 + SignalNumber[sig]]
               ELSE IF won
               THEN [p EXCEPT !.g_shutdown_in_progress = TRUE, !.handling = @ + 1]
               ELSE p
    /\ UNCHANGED OldVars

(* lines 36-37: the activation that won the exchange sets the flag and     *)
(* calls quit(); a running event loop is told to stop, and what quit()     *)
(* does before run() has started the loop is the library's choice         *)
HandlerQuit ==
    /\ Alive
    /\ searchd.handling > 0
    /\ \E kept \in BOOLEAN :
          /\ searchd.stage = "serving" => kept
          /\ searchd' = [searchd EXCEPT !.g_shutdown_requested = TRUE,
                                        !.quit_calls = @ + 1,
                                        !.handling = @ - 1,
                                        !.loop_quit = @ \/ kept]
    /\ UNCHANGED OldVars

(* lines 469-472: run() returns when the loop has stopped; return 0        *)
RunReturns ==
    /\ searchd.stage = "serving"
    /\ searchd.loop_quit
    /\ searchd' = [searchd EXCEPT !.stage = "exited", !.exit = 0,
                                  !.binds = [i \in DOMAIN @ |-> [@[i] EXCEPT !.open = FALSE]]]
    /\ UNCHANGED OldVars

ServeArgv ==
    {<<"--serve", "--in", d, "--port", p>> :
        d \in {"good", "schema", "badline", "trunc", "no_meta", "no_docs", "no_postings",
               "nowhere"}, p \in {"8900", "0", "65536", "80x", "abc", "-1", " 7"}}

ArgvInputs ==
    ServeArgv \cup
    { <<>>, <<"--help">>, <<"--index", "--serve">>, <<"--index", "--in", "good">>,
      <<"--index", "--port", "8900">>, <<"--serve", "--docs", "docs.json">>,
      <<"--serve", "--out", "idx">>, <<"--in", "good">>, <<"--index">>,
      <<"--index", "--out", "idx">>, <<"--index", "--out", "idx", "--docs", "docs.json">>,
      <<"--serve">>, <<"--serve", "--in">>, <<"--serve", "--in", "good">>,
      <<"--serve", "--in", "good", "--port">>, <<"--index", "--serve", "--help">>,
      <<"--serve", "--in", "nowhere", "--port", "8900", "--index">>,
      <<"--docs", "--index", "--serve">> }

InitServe ==
    /\ svc = [s \in {} |-> EmptyService]
    /\ mu = [s \in {} |-> Unlocked]
    /\ disk = [d \in {} |-> EmptyDir]
    /\ pc = [t \in {} |-> "idle"]
    /\ call = [t \in {} |-> NoCall]
    /\ budget = [t \in {} |-> NoBudget]
    /\ faults = 0
    /\ hist = [s \in {} |-> <<>>]
    /\ saved = [d \in {} |-> NoSaved]
    /\ searchd \in {[NotStarted EXCEPT !.stage = "args", !.argv = a, !.fs = ServeDisk] :
                       a \in ArgvInputs}

NextServe ==
    \/ ParseArgs
    \/ IndexMode
    \/ CheckIndex
    \/ LoadIndex
    \/ RegisterSignals
    \/ PortCheck
    \/ WriteStartupMessage
    \/ Run
    \/ \E sig \in {"SIGINT", "SIGTERM"} : Signal(sig)
    \/ HandlerQuit
    \/ RunReturns

SpecServe == InitServe /\ [][NextServe]_vars

(* signal_handler runs to its end, and run() returns once the loop has     *)
(* been told to stop                                                       *)
SpecServeLive == SpecServe /\ WF_vars(HandlerQuit) /\ WF_vars(RunReturns)


(* the startup message is on stdout                                        *)
Started == \E i \in 1..Len(searchd.out) : searchd.out[i] = StartupMessage(searchd)

(* the run ended in the index stage: the directory or one of its files is  *)
(* missing, or s.load threw                                                *)
IndexLoadFailed == searchd.failed \in {"check_index", "load"}

(* C28: serve-mode startup is staged and the first failure wins.  A run    *)
(* whose index load failed has exited with code 3, has exactly one line on *)
(* stderr, made no bind() call and did not print the startup message; a    *)
(* load that threw always ends the run there; bind() is called and the     *)
(* message printed only after a load without error, serving begins only    *)
(* after the message; an argument error exits with 2 before any load; and  *)
(* no run has more than one line on stderr.                                *)
C28_StagedStartup ==
    /\ Len(searchd.err) <= 1
    /\ IndexLoadFailed =>
          /\ searchd.stage = "exited" /\ searchd.exit = 3
          /\ Len(searchd.err) = 1
          /\ searchd.binds = <<>>
          /\ ~Started
    /\ searchd.load_err \notin {"not_run", "none"} => searchd.failed = "load"
    /\ searchd.binds # <<>> \/ Started => searchd.load_err = "none"
    /\ Started => searchd.stage \in {"run", "serving", "exited"}
    /\ searchd.stage = "serving" => Started
    /\ searchd.failed = "args" =>
          searchd.exit = 2 /\ searchd.load_err = "not_run" /\ Len(searchd.err) = 1

(* s.load threw on an index whose files are all present                    *)
C28_Witness ==
    /\ searchd.failed = "load"
    /\ searchd.load_err # "none"
    /\ searchd.exit = 3
    /\ searchd.err = <<"Error loading index: " \o searchd.load_err>>

(* a run that passed every stage and serves                                *)
C28_WitnessServing == searchd.stage = "serving" /\ Started /\ searchd.load_err = "none"


(* C29: whenever the startup message is on stdout, a bind() on the port    *)
(* has succeeded before it was written (be it only the test socket's); the *)
(* message is on stdout at most once; and a run in which a bind() on the   *)
(* port failed has exited with code 3 and has not printed the message.     *)
C29_BoundBeforeMessage ==
    /\ Started => \E i \in 1..Len(searchd.binds) : searchd.binds[i].ok
    /\ Cardinality({i \in 1..Len(searchd.out) : searchd.out[i] = StartupMessage(searchd)}) <= 1
    /\ (\E i \in 1..Len(searchd.binds) : ~searchd.binds[i].ok) =>
          searchd.exit = 3 /\ ~Started

(* the message is written while no socket of the process is bound to the   *)
(* port: the test socket, if there was one, is closed again                *)
C29_MessageWhileBound ==
    searchd.stage = "run" => \E i \in 1..Len(searchd.binds) : searchd.binds[i].open

(* the listener's bind() fails after the message was printed               *)
C29_NoMessageOnListenerFailure ==
    (\E i \in 1..Len(searchd.binds) :
        searchd.binds[i].socket = "listener" /\ ~searchd.binds[i].ok) => ~Started


(* every signal so far was delivered while run() was serving               *)
ToRunningServer ==
    /\ searchd.sigs # <<>>
    /\ \A i \in 1..Len(searchd.sigs) : searchd.sigs[i].at = "serving"

(* quit() is called at most once, by the first signal the handler saw, and *)
(* after signals to a running server the process has not exited otherwise  *)
(* than with 0                                                             *)
QuitOnce ==
    /\ searchd.quit_calls + searchd.handling <= 1
    /\ \A i \in 1..Len(searchd.sigs) :
          searchd.sigs[i].won <=>
              /\ searchd.sigs[i].handled
              /\ \A j \in 1..(i - 1) : ~searchd.sigs[j].handled
    /\ searchd.g_shutdown_requested <=> searchd.quit_calls = 1
    /\ ToRunningServer =>
          /\ searchd.sigs[1].won
          /\ searchd.quit_calls + searchd.handling = 1
          /\ searchd.quit_calls = 1 => searchd.loop_quit
          /\ searchd.exit \in {-1, 0}

(* C30: shutdown is idempotent.  Whatever SIGINT and SIGTERM signals reach *)
(* the process and however their handlers interleave, quit() is called at  *)
(* most once and only by the first signal handled; when the signals reach  *)
(* a running server the first one issues the call, the others change       *)
(* nothing, and the process then exits with code 0.                        *)
C30_ShutdownIdempotent == [] QuitOnce /\ (ToRunningServer ~> searchd.exit = 0)

(* SIGINT and SIGTERM both reached the running server, one quit() was      *)
(* called and the process has exited with 0                                *)
C30_Witness ==
    /\ ToRunningServer
    /\ {searchd.sigs[i].sig : i \in 1..Len(searchd.sigs)} = {"SIGINT", "SIGTERM"}
    /\ searchd.quit_calls = 1
    /\ searchd.exit = 0

(* a second signal arrived while the first handler had won the exchange    *)
(* and had not yet called quit()                                           *)
C30_WitnessInterleaved ==
    /\ ToRunningServer
    /\ Len(searchd.sigs) >= 2
    /\ searchd.handling = 1
    /\ searchd.quit_calls = 0


(***************************************************************************)
(* The /health endpoint of searchd (main.cpp lines 341-365).  A request    *)
(* can arrive only while the listener is open; its handler runs later, on  *)
(* the event loop, and reads the two atomics then.                         *)
(***************************************************************************)
MaxRequests == 2

(* a handler that looks at readiness only                                  *)
ready_only(ready, shutting) == ready

(* line 350: g_server_ready.load() && !g_shutdown_in_progress.load()       *)
health_ok(ready, shutting) == ready /\ ~shutting

(* lines 347-364: the response of the /health handler                      *)
health_response(ready, shutting) ==
    IF health_ok(ready, shutting) THEN [status |-> 200, body |-> "OK"]
    ELSE [status |-> 503, body |-> ""]

(* a GET /health is accepted by the listener; after_signal records whether *)
(* a SIGINT or SIGTERM had been handled by then                            *)
HealthReceive ==
    /\ searchd.stage = "serving"
    /\ Len(searchd.reqs) < MaxRequests
    /\ searchd' = [searchd EXCEPT !.reqs =
                      Append(@, [path |-> "/health", done |-> FALSE, status |-> 0, body |-> "",
                                 after_signal |-> \E i \in 1..Len(searchd.sigs) :
                                                      searchd.sigs[i].handled,
                                 ready_at_reply |-> FALSE, shutting_at_reply |-> FALSE])]
    /\ UNCHANGED OldVars

(* lines 344-364: the handler runs and calls callback(resp)                *)
HealthHandler ==
    /\ searchd.stage = "serving"
    /\ \E i \in 1..Len(searchd.reqs) :
          /\ ~searchd.reqs[i].done
          /\ LET r == health_response(searchd.g_server_ready, searchd.g_shutdown_in_progress)
             IN  searchd' = [searchd EXCEPT !.reqs[i] =
                                [@ EXCEPT !.done = TRUE, !.status = r.status, !.body = r.body,
                                          !.ready_at_reply = searchd.g_server_ready,
                                          !.shutting_at_reply = searchd.g_shutdown_in_progress]]
    /\ UNCHANGED OldVars

NextHealth ==
    \/ NextServe
    \/ HealthReceive
    \/ HealthHandler

SpecHealth == InitServe /\ [][NextHealth]_vars

ListenerBound ==
    \E i \in 1..Len(searchd.binds) : searchd.binds[i].socket = "listener" /\ searchd.binds[i].ok

(* C31: /health answers 200 with the body "OK" only while the server is    *)
(* ready and no shutdown is in progress.  Every answered request has the   *)
(* status 200 and the body "OK", or the status 503 and an empty body; a    *)
(* 200 was given only when the index had loaded without error, the         *)
(* listener was bound, g_server_ready was set and no SIGINT or SIGTERM had *)
(* been handled; and every request received after the first handled        *)
(* signal is answered 503.                                                 *)
C31_HealthOnlyWhenReady ==
    \A i \in 1..Len(searchd.reqs) :
        LET r == searchd.reqs[i]
        IN  r.done =>
              /\ <<r.status, r.body>> \in {<<200, "OK">>, <<503, "">>}
              /\ r.status = 200 =>
                    /\ searchd.load_err = "none"
                    /\ ListenerBound
                    /\ r.ready_at_reply
                    /\ ~r.shutting_at_reply
                    /\ ~r.after_signal
              /\ r.after_signal => r.status = 503
              /\ r.status = 200 <=> (r.ready_at_reply /\ ~r.shutting_at_reply)

(* one request answered 200 before the signal, one received after the      *)
(* signal was handled and answered 503                                     *)
C31_Witness ==
    /\ Len(searchd.reqs) = 2
    /\ searchd.reqs[1].done /\ searchd.reqs[1].status = 200 /\ searchd.reqs[1].body = "OK"
    /\ searchd.reqs[2].done /\ searchd.reqs[2].after_signal /\ searchd.reqs[2].status = 503

(* a request received before the signal and answered after it: 503         *)
C31_WitnessInFlight ==
    \E i \in 1..Len(searchd.reqs) :
        /\ searchd.reqs[i].done
        /\ ~searchd.reqs[i].after_signal
        /\ searchd.reqs[i].status = 503


(***************************************************************************)
(* The command line of src/src/main.cpp, the second main() of the          *)
(* repository: a pure function from argv[1..argc-1] to what is printed and *)
(* the exit code.                                                          *)
(***************************************************************************)
NoCliArgs ==
    [index |-> FALSE, serve |-> FALSE, help |-> FALSE, docs |-> "", out |-> "", in |-> "",
     port |-> ""]

(* src/src/main.cpp lines 15-52: a flag that takes a value consumes the    *)
(* argument that follows it                                                *)
RECURSIVE parse_args(_, _, _)
parse_args(argv, i, a) ==
    IF i > Len(argv) THEN a
    ELSE LET arg   == argv[i]
             value == i + 1 <= Len(argv)
         IN  IF arg = "--index" THEN parse_args(argv, i + 1, [a EXCEPT !.index = TRUE])
             ELSE IF arg = "--serve" THEN parse_args(argv, i + 1, [a EXCEPT !.serve = TRUE])
             ELSE IF arg = "--help" THEN parse_args(argv, i + 1, [a EXCEPT !.help = TRUE])
             ELSE IF arg = "--docs" /\ value
                  THEN parse_args(argv, i + 2, [a EXCEPT !.docs = argv[i + 1]])
             ELSE IF arg = "--out" /\ value
                  THEN parse_args(argv, i + 2, [a EXCEPT !.out = argv[i + 1]])
             ELSE IF arg = "--in" /\ value
                  THEN parse_args(argv, i + 2, [a EXCEPT !.in = argv[i + 1]])
             ELSE IF arg = "--port" /\ value
                  THEN parse_args(argv, i + 2, [a EXCEPT !.port = argv[i + 1]])
             ELSE parse_args(argv, i + 1, a)

CliExit(code, out, err) == [exit |-> code, out |-> out, err |-> err]

(* src/src/main.cpp lines 68-135                                           *)
cli_main(argv) ==
    LET args  == parse_args(argv, 1, NoCliArgs)
        debug == <<"[DEBUG] index=" \o (IF args.index THEN "1" ELSE "0")
                      \o " serve=" \o (IF args.serve THEN "1" ELSE "0")>>
        usage(line) == CliExit(2, <<>>, Append(debug, line))
    IN  IF has_flag(argv, "--index") /\ has_flag(argv, "--serve")
        THEN CliExit(2, <<>>, <<"Error: --index and --serve cannot be used together">>)
        ELSE IF argv = <<>> \/ args.help THEN CliExit(0, <<"Usage:">>, debug)
        ELSE IF args.index /\ args.serve
        THEN usage("Error: --index and --serve cannot be used together")
        ELSE IF args.index /\ args.docs = ""
        THEN usage("Error: --docs <path> is required when using --index mode")
        ELSE IF args.index /\ args.out = ""
        THEN usage("Error: --out <index_dir> is required when using --index mode")
        ELSE IF ~args.index /\ args.serve /\ args.in = ""
        THEN usage("Error: --in <index_dir> is required when using --serve mode")
        ELSE IF ~args.index /\ args.serve /\ args.port = ""
        THEN usage("Error: --port <port> is required when using --serve mode")
        ELSE usage("Error: Missing required mode flag (--index or --serve)")

BothModes(argv) == has_flag(argv, "--index") /\ has_flag(argv, "--serve")

ExclusivityError == "Error: --index and --serve cannot be used together"

(* C32: flag exclusivity is checked before anything else.  Once the        *)
(* arguments have been looked at (and no signal has ended the process      *)
(* before), a run of searchd whose arguments hold                          *)
(* both --index and --serve, whatever else they hold, has exited with code *)
(* 2 and its stderr is the exclusivity error; the main() of                *)
(* src/src/main.cpp does the same on these arguments; and a run that       *)
(* exited with code 2 did so in the argument stage, before s.load, any     *)
(* bind() and any line on stdout.                                          *)
C32_ExclusivityFirst ==
    /\ BothModes(searchd.argv) /\ searchd.stage # "args" /\ searchd.sigs = <<>> =>
          /\ searchd.exit = 2
          /\ searchd.err = <<ExclusivityError>>
    /\ BothModes(searchd.argv) =>
          /\ cli_main(searchd.argv).exit = 2
          /\ cli_main(searchd.argv).err = <<ExclusivityError>>
    /\ searchd.exit = 2 =>
          /\ searchd.failed = "args"
          /\ searchd.load_err = "not_run"
          /\ searchd.binds = <<>>
          /\ searchd.out = <<>>

(* the part of C32 that the code meets: usage errors come before any file, *)
(* directory or port is touched, and src/src/main.cpp tests exclusivity    *)
(* first                                                                   *)
C32_UsageErrorsFirst ==
    /\ BothModes(searchd.argv) =>
          /\ cli_main(searchd.argv).exit = 2
          /\ cli_main(searchd.argv).err = <<ExclusivityError>>
    /\ searchd.exit = 2 =>
          /\ searchd.failed = "args"
          /\ searchd.load_err = "not_run"
          /\ searchd.binds = <<>>
          /\ searchd.out = <<>>


(***************************************************************************)
(* SpecOps: one service used by three threads at once.  w adds documents,  *)
(* p saves to directory "a" and loads from "a" or from a directory with a  *)
(* defective docs.jsonl, r1 searches.  One open or rename of a save may    *)
(* fail.                                                                   *)
(***************************************************************************)
OpsDocs == { <<1, <<97>>>>, <<2, <<66, 32, 97, 45, 97>>>> }

OpsQueries == { <<97>>, <<97, 32, 45, 98>> }

InitOps ==
    InitWith({"ss"}, {"w", "p", "r1"},
             [d \in {"a", "badline"} |-> IF d = "a" THEN EmptyDir ELSE SpecDisk["badline"]],
             [t \in {"w", "p", "r1"} |->
                 CASE t = "w" -> [NoBudget EXCEPT !.add = MaxAdds]
                   [] t = "p" -> [NoBudget EXCEPT !.save = 1, !.load = MaxLoads]
                   [] t = "r1" -> [NoBudget EXCEPT !.search = MaxSearches]],
             FALSE)

NextOps ==
    \/ \E doc \in OpsDocs : AddInvoke("w", "ss", doc)
    \/ SaveInvoke("p", "ss", "a")
    \/ \E dir \in DOMAIN disk : LoadInvoke("p", "ss", dir)
    \/ \E op \in SearchOps, q \in OpsQueries : SearchInvoke("r1", "ss", op, q)
    \/ \E t \in Threads : AcquireExclusive(t)
    \/ \E t \in Threads : AcquireShared(t)
    \/ \E t \in Threads : AddIndex(t)
    \/ \E t \in Threads : AddTables(t)
    \/ \E t \in Threads : AddStats(t)
    \/ \E t \in Threads : SaveOpen(t)
    \/ \E t \in Threads : SaveOpenFails(t)
    \/ \E t \in Threads : SaveWrite(t)
    \/ \E t \in Threads : SaveClose(t)
    \/ \E t \in Threads : SaveRemove(t)
    \/ \E t \in Threads : SaveRename(t)
    \/ \E t \in Threads : SaveRenameFails(t)
    \/ \E t \in Threads : LoadMeta(t)
    \/ \E t \in Threads : LoadDocs(t)
    \/ \E t \in Threads : LoadPostings(t)
    \/ \E t \in Threads : SearchCandidates(t)
    \/ \E t \in Threads : SearchScore(t)
    \/ \E t \in Threads : SnippetStep(t)

SpecOps == InitOps /\ [][NextOps]_vars


(* the step is taken by thread t                                           *)
StepBy(t) == pc'[t] # pc[t] \/ call'[t] # call[t]

(* C33: search, search_scored, search_with_snippets and save are pure on   *)
(* the service state.  No step of a thread that executes one of them       *)
(* changes the index, the two document tables, N or avgdl of any service,  *)
(* and when save returns, with or without error, the state of its service  *)
(* is the one save found when it took the lock.                            *)
C33_SearchAndSavePure ==
    [][\A t \in Threads :
          StepBy(t) /\ call'[t].op \in SearchOps \cup {"save"} =>
              /\ svc' = svc
              /\ (pc[t] = "save" /\ pc'[t] = "idle") => svc'[call[t].s] = call[t].pre]_vars

(* on a service that holds documents, a save has returned and a search     *)
(* that found something has returned                                       *)
C33_Witness ==
    /\ Finished("p", {"save"})
    /\ Finished("r1", SearchOps)
    /\ call["r1"].result # <<>>
    /\ svc["ss"].N_ > 0
    /\ call["p"].pre.N_ > 0

(* a save that failed has returned                                         *)
C33_WitnessFailedSave ==
    Finished("p", {"save"}) /\ call["p"].err # "none" /\ svc["ss"].N_ > 0


(* how often term occurs among tokens                                      *)
TokenCount(tokens, term) == Cardinality({i \in 1..Len(tokens) : tokens[i] = term})

TermsOf(index) == {index[i].term : i \in 1..Len(index)}

(* thread t has returned from an add_document whose docId was already in   *)
(* the service                                                             *)
ReAdded(t) ==
    /\ Finished(t, {"add_document"})
    /\ call[t].doc_id \in DOMAIN call[t].pre.doc_text_

(* the postings of d are those of the single text t1                       *)
PostingsOfText(index, d, t1) ==
    \A term \in TermsOf(index) \cup {tokenize(t1)[i] : i \in 1..Len(tokenize(t1))} :
        term_tf(index, term, d) = TokenCount(tokenize(t1), term)

(* C34: re-adding a docId.  After add_document(d, t2) on a service that    *)
(* holds d with text t1, the stored text and length of d are those of t2   *)
(* alone, N counts d once (the set of documents is the same as before),    *)
(* and the postings of d accumulate: every tf(term, d) is its value before *)
(* plus the occurrences of term in t2, which is occurrences in t1 plus     *)
(* occurrences in t2 when d had been added once; terms that listed d       *)
(* before still list it.                                                   *)
C34_ReAddAccumulates ==
    \A t \in Threads :
        ReAdded(t) =>
            LET d   == call[t].doc_id
                t2  == call[t].text
                pre == call[t].pre
                t1  == pre.doc_text_[d]
                s   == svc[call[t].s]
                terms == TermsOf(pre.idx_) \cup TermsOf(s.idx_)
            IN  /\ s.doc_text_[d] = t2
                /\ s.doc_len_[d] = Len(tokenize(t2))
                /\ DOMAIN s.doc_len_ = DOMAIN pre.doc_len_
                /\ DOMAIN s.doc_text_ = DOMAIN pre.doc_text_
                /\ Cardinality(DOMAIN pre.doc_len_) = pre.N_ => s.N_ = pre.N_
                /\ s.N_ = Cardinality(DOMAIN s.doc_len_)
                /\ \A term \in terms :
                      /\ term_tf(s.idx_, term, d) =
                            term_tf(pre.idx_, term, d) + TokenCount(tokenize(t2), term)
                      /\ PostingsOfText(pre.idx_, d, t1) =>
                            term_tf(s.idx_, term, d) =
                                TokenCount(tokenize(t1), term) + TokenCount(tokenize(t2), term)
                      /\ term_tf(pre.idx_, term, d) > 0 => term_tf(s.idx_, term, d) > 0
                      /\ \A e \in DOMAIN pre.doc_len_ \ {d} :
                            term_tf(s.idx_, term, e) = term_tf(pre.idx_, term, e)

(* d was added once with t1 and again with a different t2: a term of t1    *)
(* that is not in t2 still lists d, while the text and length are t2's     *)
C34_Witness ==
    /\ ReAdded("w")
    /\ LET d   == call["w"].doc_id
           pre == call["w"].pre
           t1  == pre.doc_text_[d]
           t2  == call["w"].text
       IN  /\ PostingsOfText(pre.idx_, d, t1)
           /\ \E term \in TermsOf(pre.idx_) :
                 /\ TokenCount(tokenize(t1), term) > 0
                 /\ TokenCount(tokenize(t2), term) = 0
                 /\ tokenize(t2) # <<>>
                 /\ term_tf(svc["ss"].idx_, term, d) > 0
                 /\ svc["ss"].doc_len_[d] = Len(tokenize(t2))
                 /\ svc["ss"].doc_len_[d] < Len(tokenize(t1)) + Len(tokenize(t2))

(* a term of both texts has the sum of the two counts                      *)
C34_WitnessSum ==
    /\ ReAdded("w")
    /\ PostingsOfText(call["w"].pre.idx_, call["w"].doc_id,
                      call["w"].pre.doc_text_[call["w"].doc_id])
    /\ \E term \in TermsOf(svc["ss"].idx_) :
          /\ TokenCount(tokenize(call["w"].text), term) > 0
          /\ term_tf(call["w"].pre.idx_, term, call["w"].doc_id) > 0
          /\ term_tf(svc["ss"].idx_, term, call["w"].doc_id) >= 2


(* thread t has returned from a load that reported no error                *)
Loaded(t) == Finished(t, {"load"}) /\ call[t].err = "none"

(* C35: a successful load replaces the service state.  After load(dir)     *)
(* has returned without error, the index, the document text table, the     *)
(* document length table, N and avgdl are those a fresh service gets from  *)
(* dir, whatever the service held before; so every search* answers as on   *)
(* that fresh service, and a document or posting of the pre-load state     *)
(* that dir does not describe is in none of the tables.                    *)
C35_LoadReplaces ==
    \A t \in Threads :
        Loaded(t) =>
            LET fresh == load(EmptyService, disk[call[t].dir]).s
                s     == svc[call[t].s]
                pre   == call[t].pre
            IN  /\ s = fresh
                /\ \A d \in DOMAIN pre.doc_text_ \ DOMAIN fresh.doc_text_ :
                      /\ d \notin DOMAIN s.doc_text_ \cup DOMAIN s.doc_len_
                      /\ d \notin DOMAIN fresh.doc_len_ =>
                            \A q \in QueryInputs : \A k \in 1..Len(search(s, q)) :
                                search(s, q)[k] # d

(* the load succeeded on a service holding a document that the directory   *)
(* does not describe, and a term of that document is known to the old      *)
(* index only                                                              *)
C35_Witness ==
    /\ Loaded("w")
    /\ \E d \in DOMAIN call["w"].pre.doc_text_ : d \notin DOMAIN svc["ss"].doc_text_
    /\ \E d \in DOMAIN svc["ss"].doc_text_ : d \notin DOMAIN call["w"].pre.doc_text_
    /\ call["w"].pre.N_ > 0
    /\ svc["ss"].N_ > 0


(***************************************************************************)
(* SpecIdentity: ss is filled by add_document calls with pairwise distinct *)
(* docIds (negative ones and empty texts included), saved to "a", and "a"  *)
(* is loaded into ss itself or into the fresh service ss2.                 *)
(***************************************************************************)
(* the add_document calls come first: none after the save or the load      *)
AddsFirst(t) == budget[t].save = 1 /\ budget[t].load = MaxLoads

AddDistinct(t, s, doc) ==
    /\ AddsFirst(t)
    /\ doc[1] \notin DOMAIN svc[s].doc_text_
    /\ AddInvoke(t, s, doc)

IdentityDocs ==
    { <<1, <<97>>>>, <<2, <<66, 32, 97, 45, 97>>>>, <<3, <<>>>>, <<-1, <<97>>>>,
      <<4, <<34, 97, 92, 32, 98>>>> }

InitIdentity ==
    InitWith({"ss", "ss2"}, {"w"}, [d \in {"a"} |-> EmptyDir],
             [t \in {"w"} |-> [NoBudget EXCEPT !.add = MaxAdds, !.save = 1,
                                               !.load = MaxLoads]],
             FALSE)

NextIdentity ==
    \/ \E doc \in IdentityDocs : AddDistinct("w", "ss", doc)
    \/ SaveInvoke("w", "ss", "a")
    \/ \E s \in {"ss", "ss2"} : LoadInvoke("w", s, "a")
    \/ AcquireExclusive("w")
    \/ AddIndex("w")
    \/ AddTables("w")
    \/ AddStats("w")
    \/ SaveOpen("w")
    \/ SaveWrite("w")
    \/ SaveClose("w")
    \/ SaveRemove("w")
    \/ SaveRename("w")
    \/ LoadMeta("w")
    \/ LoadDocs("w")
    \/ LoadPostings("w")

SpecIdentity == InitIdentity /\ [][NextIdentity]_vars

(* the sum over all terms of tf(term, d)                                   *)
RECURSIVE SumTf(_, _)
SumTf(index, d) ==
    IF index = <<>> THEN 0
    ELSE term_tf(<<Head(index)>>, Head(index).term, d) + SumTf(Tail(index), d)

Quiescent == \A t \in Threads : pc[t] = "idle"

(* C36: tokeniser identity.  Whenever no call is in progress, in a service *)
(* filled by add_document calls with distinct docIds, and in a service     *)
(* that has then loaded what was saved, the stored length of every         *)
(* document equals the sum over all terms of its term frequencies.         *)
C36_LengthIsSumOfTf ==
    Quiescent =>
        \A s \in DOMAIN svc : \A d \in DOMAIN svc[s].doc_len_ :
            svc[s].doc_len_[d] = SumTf(svc[s].idx_, d)

(* ss2 has loaded the save of a service holding "B a-a": three tokens, the *)
(* term a twice                                                            *)
C36_Witness ==
    /\ Loaded("w")
    /\ call["w"].s = "ss2"
    /\ \E d \in DOMAIN svc["ss2"].doc_len_ :
          /\ svc["ss2"].doc_len_[d] = 3
          /\ term_tf(svc["ss2"].idx_, <<97>>, d) = 2
          /\ Len(svc["ss2"].doc_text_[d]) = 5

(* a load that failed on a saved negative docId                            *)
C36_WitnessFailedLoad ==
    /\ Finished("w", {"load"})
    /\ call["w"].err = "Invalid docId in docs.jsonl"
    /\ svc["ss"].N_ = 2


(***************************************************************************)
(* What the three files of a directory say, read the way load reads them.  *)
(***************************************************************************)
MetaN(dir) == JsonGet(ParseJson(dir["index_meta.json"].data).obj, "N", 0)

Records(dir) == SelectSeq(getlines(dir["docs.jsonl"].data), LAMBDA l : l # <<>>)

RecordIds(dir) ==
    { JsonGet(ParseJson(Records(dir)[i]).obj, "docId", -1) : i \in 1..Len(Records(dir)) }

PostingIds(dir) ==
    LET index == InvertedIndex_load(<<>>, dir["postings.bin"]).index
    IN  UNION { { index[i].post[j][1] : j \in 1..Len(index[i].post) } : i \in 1..Len(index) }

SavedBy(t) == Finished(t, {"save"}) /\ call[t].err = "none"


(* C37: when a save has returned without error, the N of index_meta.json   *)
(* equals the number of records of docs.jsonl and every docId of           *)
(* postings.bin has a record in docs.jsonl, add_document calls of another  *)
(* thread running at the same time.                                        *)
C37_ConsistentSnapshot ==
    SavedBy("p") =>
        LET dir == disk[call["p"].dir]
        IN  /\ MetaN(dir) = Len(Records(dir))
            /\ PostingIds(dir) \subseteq RecordIds(dir)

(* the save ran while an add_document call of w was waiting for the lock   *)
C37_Witness ==
    /\ SavedBy("p")
    /\ MetaN(disk["a"]) > 0
    /\ PostingIds(disk["a"]) # {}
    /\ pc["w"] = "lock_exclusive"


(* C37, the part that holds: a save of a service that only add_document    *)
(* calls have changed (no load before it) writes three files that agree,   *)
(* whatever add_document calls of w run at the same time.                  *)
C37_ConsistentAfterAdds ==
    (SavedBy("p") /\ budget["p"].load = MaxLoads) =>
        LET dir == disk[call["p"].dir]
        IN  /\ MetaN(dir) = Len(Records(dir))
            /\ PostingIds(dir) \subseteq RecordIds(dir)


(* C39: a directory written by a save that returned without error loads    *)
(* into the fresh service ss2 without error, whatever add_document calls   *)
(* (empty texts and negative docIds included) built the saved service.     *)
C39_SavedDirLoads ==
    (Finished("w", {"load"}) /\ call["w"].s = "ss2" /\ saved["a"].valid) =>
        call["w"].err = "none"

(* the part that holds: services whose docIds are all non-negative         *)
C39_SavedDirLoadsNonNegative ==
    ( /\ Finished("w", {"load"})
      /\ call["w"].s = "ss2"
      /\ saved["a"].valid
      /\ \A d \in DOMAIN saved["a"].s.doc_text_ : d >= 0 ) =>
        call["w"].err = "none"


(***************************************************************************)
(* SpecOpsLive: SpecOps with a fair scheduler.  A thread that is inside a  *)
(* call and can take its next step eventually takes it; whether a thread   *)
(* starts another call is left open.  The steps that wait for the lock or  *)
(* touch files are weakly fair.  A step that only computes (its guard is   *)
(* the thread's position alone and its assignments are total, so it is     *)
(* enabled exactly when the thread stands at it) gets the same condition   *)
(* with that guard written out: the thread does not stand at it forever.   *)
(***************************************************************************)
OpsWait(t) ==
    \/ AcquireExclusive(t)
    \/ AcquireShared(t)
    \/ AddStats(t)
    \/ SaveOpen(t)
    \/ SaveOpenFails(t)
    \/ SaveWrite(t)
    \/ SaveClose(t)
    \/ SaveRemove(t)
    \/ SaveRename(t)
    \/ SaveRenameFails(t)
    \/ LoadMeta(t)

OpsCompute(t) ==
    \/ AddIndex(t)
    \/ AddTables(t)
    \/ LoadDocs(t)
    \/ LoadPostings(t)
    \/ SearchCandidates(t)
    \/ SearchScore(t)
    \/ SnippetStep(t)

Computing(t) ==
    pc[t] \in {"add_index", "add_tables", "load_docs", "load_postings",
               "search_candidates", "search_score", "snippets"}

ThreadRuns(t) ==
    /\ WF_vars(OpsWait(t))
    /\ ([]<>(~Computing(t)) \/ []<><<OpsCompute(t)>>_vars)

MaxLiveAdds == 1

InitOpsLive ==
    InitWith({"ss"}, {"w", "p", "r1"},
             [d \in {"a", "badline"} |-> IF d = "a" THEN EmptyDir ELSE SpecDisk["badline"]],
             [t \in {"w", "p", "r1"} |->
                 CASE t = "w" -> [NoBudget EXCEPT !.add = MaxLiveAdds]
                   [] t = "p" -> [NoBudget EXCEPT !.save = 1, !.load = MaxLoads]
                   [] t = "r1" -> [NoBudget EXCEPT !.search = MaxSearches]],
             FALSE)

SpecOpsLive ==
    /\ InitOpsLive
    /\ [][NextOps]_vars
    /\ ThreadRuns("w") /\ ThreadRuns("p") /\ ThreadRuns("r1")

HoldsNoLock(t) == \A s \in DOMAIN mu : mu[s].writer # t /\ t \notin mu[s].readers

(* a thread that is about to lock, that has returned or failed, or that is *)
(* in the snippet loop after search_scored returned, holds no lock         *)
LockDiscipline ==
    \A t \in Threads :
        pc[t] \in {"idle", "lock_exclusive", "lock_shared", "snippets"} => HoldsNoLock(t)

(* C38: no operation locks the service while it holds the lock, every      *)
(* operation gives the lock back when it returns or fails, and under a     *)
(* fair scheduler every call that was started completes, those started     *)
(* after a failed load or save included.                                   *)
C38_LockProgress ==
    /\ []LockDiscipline
    /\ \A t \in {"w", "p", "r1"} : (pc[t] # "idle") ~> (pc[t] = "idle")

(* an add_document call that locked the state a failed load left behind    *)
(* has completed, and so has a search                                      *)
C38_Witness ==
    /\ Finished("p", {"load"})
    /\ call["p"].err # "none"
    /\ Finished("w", {"add_document"})
    /\ call["w"].pre.N_ = 2
    /\ call["w"].pre.doc_len_ = <<1>>
    /\ Finished("r1", SearchOps)
    /\ HoldsNoLock("w") /\ HoldsNoLock("p") /\ HoldsNoLock("r1")

(* after a save that failed: the lock it held is shared by a search, and   *)
(* an add_document call waits for it                                       *)
C38_WitnessFailedSave ==
    /\ Finished("p", {"save"})
    /\ call["p"].err # "none"
    /\ "r1" \in mu["ss"].readers
    /\ pc["w"] = "lock_exclusive"

=============================================================================
